---- MODULE Spec2Model ----
(***************************************************************************)
(* Skill discovery / import pipeline of SGA-Moltbot (OpenClaw fork).       *)
(*                                                                         *)
(* Strings are sequences of one-character strings, paths are strings with  *)
(* "/" separators, so that the string functions of the source (trim,       *)
(* sanitizeSkillDirName, path.join, path.basename, sort order) are modelled *)
(* by what they do.                                                        *)
(***************************************************************************)
EXTENDS Integers, Sequences, FiniteSets, TLC

(***************************************************************************)
(* Strings                                                                 *)
(***************************************************************************)

\* The characters of the model in UTF-16 code unit order (the order of
\* Array.prototype.toSorted on strings).
CharOrder ==
  << " ", "!", "-", ".", "/", "0", "1", "2", "3", "4", "5", "6", "7", "8", "9",
     ":", "@", "D", "I", "K", "L", "M", "S", "_",
     "a", "b", "c", "d", "e", "f", "g", "h", "i", "j", "k", "l", "m", "n",
     "o", "p", "q", "r", "s", "t", "u", "v", "w", "x", "y", "z" >>

Chars == {CharOrder[i] : i \in 1..Len(CharOrder)}

Code(ch) == CHOOSE i \in 1..Len(CharOrder) : CharOrder[i] = ch

Whitespace == {" "}

IsSpace(ch) == ch \in Whitespace

\* [a-zA-Z0-9_-]
SafeChars ==
  { "0", "1", "2", "3", "4", "5", "6", "7", "8", "9",
    "D", "I", "K", "L", "M", "S", "_", "-",
    "a", "b", "c", "d", "e", "f", "g", "h", "i", "j", "k", "l", "m", "n",
    "o", "p", "q", "r", "s", "t", "u", "v", "w", "x", "y", "z" }

Min(a, b) == IF a <= b THEN a ELSE b

Max(a, b) == IF a >= b THEN a ELSE b

\* String.prototype.slice(from) and slice(0, n), 0-based as in the source.
SliceFrom(s, from) == SubSeq(s, from + 1, Len(s))

SliceTo(s, n) == SubSeq(s, 1, Min(n, Len(s)))

RECURSIVE StripLeft(_, _)
StripLeft(s, class) ==
  IF s # << >> /\ Head(s) \in class THEN StripLeft(Tail(s), class) ELSE s

RECURSIVE StripRight(_, _)
StripRight(s, class) ==
  IF s # << >> /\ s[Len(s)] \in class
  THEN StripRight(SubSeq(s, 1, Len(s) - 1), class)
  ELSE s

\* String.prototype.trim
Trim(s) == StripRight(StripLeft(s, Whitespace), Whitespace)

\* replaceAll(/[class]+/g, rep): every maximal run of class characters
\* becomes one rep.
RECURSIVE ReplaceRuns(_, _, _)
ReplaceRuns(s, class, rep) ==
  IF s = << >> THEN << >>
  ELSE IF Head(s) \in class
       THEN << rep >> \o ReplaceRuns(StripLeft(s, class), class, rep)
       ELSE << Head(s) >> \o ReplaceRuns(Tail(s), class, rep)

\* replaceAll(/[class]/g, rep): every class character becomes rep.
ReplaceEach(s, class, rep) ==
  [i \in 1..Len(s) |-> IF s[i] \in class THEN rep ELSE s[i]]

StartsWith(s, p) == Len(s) >= Len(p) /\ SubSeq(s, 1, Len(p)) = p

EndsWith(s, p) ==
  Len(s) >= Len(p) /\ SubSeq(s, Len(s) - Len(p) + 1, Len(s)) = p

\* Lexicographic order on code units: a < b.
StrLess(a, b) ==
  \E i \in 1..Len(b) :
    /\ i <= Len(a) + 1
    /\ SubSeq(a, 1, i - 1) = SubSeq(b, 1, i - 1)
    /\ i = Len(a) + 1 \/ Code(a[i]) < Code(b[i])

\* [...set].toSorted(): the strings of a finite set in ascending order.
SortStrings(S) ==
  [i \in 1..Cardinality(S) |->
     CHOOSE x \in S : Cardinality({ y \in S : StrLess(y, x) }) = i - 1]

\* The decimal digits of a natural number, as `${n}` renders it.
Digit(d) == CharOrder[Code("0") + d]

RECURSIVE NatToStr(_)
NatToStr(n) ==
  IF n < 10 THEN << Digit(n) >> ELSE NatToStr(n \div 10) \o << Digit(n % 10) >>

(***************************************************************************)
(* Paths (POSIX)                                                           *)
(***************************************************************************)

Sep == "/"

\* path.join(a, b) for a normalized a and a relative b without "." or "..".
PathJoin(a, b) == IF b = << >> THEN a ELSE a \o << Sep >> \o b

\* The index of the last separator of s, 0 if there is none.
LastSep(s) ==
  LET at == { i \in 1..Len(s) : s[i] = Sep }
  IN IF at = {} THEN 0 ELSE CHOOSE i \in at : \A j \in at : j <= i

\* path.basename / path.dirname of a normalized path.
Basename(p) == SubSeq(p, LastSep(p) + 1, Len(p))

Dirname(p) ==
  IF LastSep(p) <= 1 THEN << Sep >> ELSE SubSeq(p, 1, LastSep(p) - 1)

\* dir is an ancestor of p, or p itself.
Under(p, dir) == p = dir \/ StartsWith(p, dir \o << Sep >>)

\* p is a direct child of dir.
ChildOf(p, dir) == p # dir /\ Under(p, dir) /\ Dirname(p) = dir

(***************************************************************************)
(* sanitizeSkillDirName                                                    *)
(***************************************************************************)

MaxDirNameLen == 64

DefaultDirName == << "s", "k", "i", "l", "l" >>

sanitizeSkillDirName(raw) ==
  LET t1 == Trim(raw)
      t2 == ReplaceRuns(t1, {"/"}, "-")
      t3 == ReplaceRuns(t2, Whitespace, "-")
      t4 == ReplaceEach(t3, Chars \ SafeChars, "-")
      t5 == ReplaceRuns(t4, {"-"}, "-")
      t6 == StripRight(StripLeft(t5, {"-", "_"}), {"-", "_"})
      normalized == SliceTo(t6, MaxDirNameLen)
  IN IF normalized = << >> THEN DefaultDirName ELSE normalized

(***************************************************************************)
(* The source side of the file system: the local directories a request can  *)
(* name and the repositories a clone can fetch.  A tree is a set of          *)
(* directories, each given by its path relative to the tree's root and the  *)
(* SKILL.md it directly contains, if any.                                    *)
(***************************************************************************)

\* (no name): the manifest declares no name.
NoName == << "!" >>

NoManifest ==
  [present |-> FALSE, readable |-> FALSE, parses |-> FALSE, name |-> NoName,
   description |-> NoName]

\* A SKILL.md: whether fs.readFile succeeds on it, whether parseFrontmatter
\* accepts it, and the raw values of its name and description fields
\* (NoName: no such field).
Manifest(readable, parses, name) ==
  [present |-> TRUE, readable |-> readable, parses |-> parses, name |-> name,
   description |-> NoName]

Dir(rel, mf) == [rel |-> rel, mf |-> mf]

SKILL_MD == << "S", "K", "I", "L", "L", ".", "m", "d" >>

N_dup_skill == << "d", "u", "p", "_", "s", "k", "i", "l", "l" >>

N_alpha == << "a", "l", "p", "h", "a" >>

\* /s: the local source directories.
LocalRoot == << "/", "s" >>

LocalTree ==
  { Dir(<< >>, NoManifest),
    Dir(<< "o", "n", "e" >>, Manifest(TRUE, TRUE, N_dup_skill)),
    Dir(<< "t", "w", "o" >>, NoManifest),
    Dir(<< "t", "w", "o", "/", "a" >>, Manifest(TRUE, FALSE, NoName)),
    Dir(<< "t", "w", "o", "/", "b" >>, Manifest(TRUE, TRUE, << " ", "d", "u", "p", "_", "s", "k", "i", "l", "l", " " >>)),
    Dir(<< "t", "w", "o", "/", "b", "u", "i", "l", "d" >>, NoManifest),
    Dir(<< "t", "w", "o", "/", "b", "u", "i", "l", "d", "/", "x" >>, Manifest(TRUE, TRUE, << "x" >>)),
    Dir(<< "b", "a", "d" >>, NoManifest),
    Dir(<< "b", "a", "d", "/", "c" >>, Manifest(FALSE, FALSE, NoName)),
    Dir(<< "b", "a", "d", "/", "d" >>, Manifest(TRUE, TRUE, NoName)),
    Dir(<< "d", "i", "s", "t" >>, Manifest(TRUE, TRUE, << "p", "k", "g" >>)),
    Dir(<< "n", "o", "n", "e" >>, NoManifest) }

\* The repository behind the one clone URL of the model.
RepoUrl == << "h", "t", "t", "p", ":", "/", "/", "h", "/", "r" >>

RepoTree ==
  { Dir(<< >>, NoManifest),
    Dir(<< "j" >>, [Manifest(TRUE, TRUE, << "a", "l", "p", "h", "a", "-", "x" >>)
                      EXCEPT !.description = N_alpha]),
    Dir(<< "k" >>, Manifest(TRUE, TRUE, N_alpha)),
    Dir(<< ".", "g", "i", "t" >>, NoManifest) }

IMPORT_IGNORED_NAMES ==
  { << ".", "g", "i", "t" >>,
    << "n", "o", "d", "e", "_", "m", "o", "d", "u", "l", "e", "s" >>,
    << "d", "i", "s", "t" >>,
    << "b", "u", "i", "l", "d" >>,
    << "o", "u", "t" >>,
    << ".", "n", "e", "x", "t" >>,
    << ".", "t", "u", "r", "b", "o" >>,
    << ".", "v", "e", "n", "v" >>,
    << "v", "e", "n", "v" >>,
    << ".", "i", "d", "e", "a" >>,
    << ".", "v", "s", "c", "o", "d", "e" >> }

MaxWalkDepth == 12

(***************************************************************************)
(* URL and locator parsing                                                 *)
(***************************************************************************)

LowerOf(ch) ==
  CASE ch = "D" -> "d" [] ch = "I" -> "i" [] ch = "K" -> "k"
    [] ch = "L" -> "l" [] ch = "M" -> "m" [] ch = "S" -> "s"
    [] OTHER -> ch

ToLower(s) == [i \in 1..Len(s) |-> LowerOf(s[i])]

\* The index of the first sep in s, 0 if there is none.
RECURSIVE IndexOf(_, _)
IndexOf(s, sep) ==
  IF s = << >> THEN 0
  ELSE IF Head(s) = sep THEN 1
  ELSE LET r == IndexOf(Tail(s), sep) IN IF r = 0 THEN 0 ELSE r + 1

\* s.split(sep).filter(Boolean)
RECURSIVE SplitNonEmpty(_, _)
SplitNonEmpty(s, sep) ==
  IF s = << >> THEN << >>
  ELSE LET i == IndexOf(s, sep) IN
       IF i = 0 THEN << s >>
       ELSE IF i = 1 THEN SplitNonEmpty(Tail(s), sep)
       ELSE << SubSeq(s, 1, i - 1) >> \o SplitNonEmpty(SliceFrom(s, i), sep)

\* parts.join(sep)
RECURSIVE JoinWith(_, _)
JoinWith(parts, sep) ==
  IF parts = << >> THEN << >>
  ELSE IF Len(parts) = 1 THEN parts[1]
  ELSE parts[1] \o << sep >> \o JoinWith(Tail(parts), sep)

S_http == << "h", "t", "t", "p", ":", "/", "/" >>

S_https == << "h", "t", "t", "p", "s", ":", "/", "/" >>

S_ssh == << "s", "s", "h", ":", "/", "/" >>

S_gitAt == << "g", "i", "t", "@" >>

S_dotGit == << ".", "g", "i", "t" >>

S_githubHost == << "g", "i", "t", "h", "u", "b", ".", "c", "o", "m" >>

S_tree == << "t", "r", "e", "e" >>

S_blob == << "b", "l", "o", "b" >>

\* /^https?:\/\//i
IsHttpLike(value) ==
  StartsWith(ToLower(value), S_http) \/ StartsWith(ToLower(value), S_https)

isUrlLike(value) == IsHttpLike(value) \/ StartsWith(ToLower(value), S_ssh)

\* /^git@[^:]+:.+/i
isGitSshLike(value) ==
  /\ StartsWith(ToLower(value), S_gitAt)
  /\ LET rest == SliceFrom(value, Len(S_gitAt))
         i == IndexOf(rest, ":")
     IN i >= 2 /\ Len(rest) > i

\* (value absent): the undefined / null of the source, for strings.
Undefined == << "!" >>

NoTree == [isTree |-> FALSE, repoUrl |-> Undefined, ref |-> Undefined, subdir |-> Undefined]

\* s.replace(/\.git$/i, "")
DropDotGit(s) ==
  IF EndsWith(ToLower(s), S_dotGit) THEN SubSeq(s, 1, Len(s) - Len(S_dotGit)) ELSE s

\* new URL(source) for a source of the form scheme://host/path: the host
\* name and the path segments (no port, user info, query or fragment).
UrlAfterScheme(source) ==
  IF StartsWith(ToLower(source), S_https)
  THEN SliceFrom(source, Len(S_https))
  ELSE SliceFrom(source, Len(S_http))

UrlHostname(source) ==
  LET rest == UrlAfterScheme(source)
      i == IndexOf(rest, "/")
  IN ToLower(IF i = 0 THEN rest ELSE SubSeq(rest, 1, i - 1))

UrlPathParts(source) ==
  LET rest == UrlAfterScheme(source)
      i == IndexOf(rest, "/")
  IN IF i = 0 THEN << >> ELSE SplitNonEmpty(SliceFrom(rest, i), "/")

GitHubRepoUrl(owner, repo) ==
  S_https \o S_githubHost \o << "/" >> \o owner \o << "/" >> \o repo \o S_dotGit

\* The result for the path segments of a github.com URL.
TreeOfParts(parts) ==
  IF Len(parts) < 2 THEN NoTree
  ELSE IF parts[1] = << >> \/ DropDotGit(parts[2]) = << >> THEN NoTree
  ELSE IF Len(parts) >= 4 /\ parts[3] \in {S_tree, S_blob}
  THEN [isTree |-> TRUE,
        repoUrl |-> GitHubRepoUrl(parts[1], DropDotGit(parts[2])),
        ref |-> parts[4],
        subdir |-> IF Len(parts) > 4
                   THEN JoinWith(SubSeq(parts, 5, Len(parts)), "/")
                   ELSE Undefined]
  ELSE [isTree |-> TRUE,
        repoUrl |-> GitHubRepoUrl(parts[1], DropDotGit(parts[2])),
        ref |-> Undefined,
        subdir |-> Undefined]

parseGitHubTreeUrl(source) ==
  IF ~IsHttpLike(source) THEN NoTree
  ELSE IF UrlHostname(source) # S_githubHost THEN NoTree
  ELSE TreeOfParts(UrlPathParts(source))

\* a ?? b
Coalesce(a, b) == IF a # Undefined THEN a ELSE b

\* A string that is neither undefined nor empty (JavaScript truthiness).
Truthy(s) == s # Undefined /\ s # << >>

(***************************************************************************)
(* State                                                                   *)
(***************************************************************************)

VARIABLES
  call,     \* per call slot: the request, the position in the code, the locals
  queue,    \* serializeByKey: per key, the calls in arrival order
  fs,       \* the target side of the file system: path -> installed content
  tmp,      \* the temporary clone directories that exist: token -> clone
  tmpSeq,   \* the number of temporary directories created so far (mkdtemp)
  ver,      \* the content version of each local source directory
  nfaults,  \* the number of transient I/O failures injected so far
  hist,     \* the finished calls of a client that calls one after the other
  arg,      \* a function taken on its own: the input it is applied to
  ret       \* a function taken on its own: its locals and its result

vars == << call, queue, fs, tmp, tmpSeq, ver, nfaults, hist, arg, ret >>

\* Bounds of the model.
NCalls == 2

MaxFaults == 1

MaxVer == 1

MaxSeqCalls == 3

MaxSoloCalls == 2

Slots == 1..NCalls

(***************************************************************************)
(* The file system as the code sees it                                     *)
(***************************************************************************)

S_tmpImport == << "/", "t", "m", "p", "/", "i" >>

S_tmpDiscover == << "/", "t", "m", "p", "/", "d" >>

S_repo == << "r", "e", "p", "o" >>

S_skills == << "s", "k", "i", "l", "l", "s" >>

\* os.tmpdir()/openclaw-skill-import-XXXXXX, made unique by mkdtemp.
TmpDirOf(tok) == S_tmpImport \o NatToStr(tok)

RepoDirOf(tok) == PathJoin(TmpDirOf(tok), S_repo)

\* The trees that exist: the local sources and every finished clone.
Mounts ==
  { [root |-> LocalRoot, tree |-> LocalTree] }
    \cup { [root |-> IF tmp[t].by = "discover"
                      THEN PathJoin(S_tmpDiscover \o NatToStr(t), S_repo)
                      ELSE RepoDirOf(t),
             tree |-> RepoTree] : t \in {u \in DOMAIN tmp : tmp[u].repo} }

SrcEntries ==
  UNION { { [path |-> PathJoin(m.root, d.rel), mf |-> d.mf] : d \in m.tree } : m \in Mounts }

SrcDirs == { e.path : e \in SrcEntries }

WorldDirs == SrcDirs \cup DOMAIN fs

ManifestAt(p) ==
  IF p \in SrcDirs THEN (CHOOSE e \in SrcEntries : e.path = p).mf
  ELSE IF p \in DOMAIN fs THEN fs[p].mf
  ELSE NoManifest

\* fs.stat succeeds: a directory, or the SKILL.md of a directory.
pathExists(p) ==
  \/ p \in WorldDirs
  \/ Basename(p) = SKILL_MD /\ ManifestAt(Dirname(p)).present

\* The content version of a source directory (clones are at version 0).
VerOf(p) == IF p \in DOMAIN ver THEN ver[p] ELSE 0

\* What an installed directory holds: where it was copied from, the version
\* copied, its manifest, and whether the copy stopped half way.
Content(src, v, mf, partial) == [src |-> src, ver |-> v, mf |-> mf, partial |-> partial]

PlainDir == Content(<< >>, 0, NoManifest, FALSE)

(***************************************************************************)
(* collectSkillDirs (skills-import.ts)                                     *)
(***************************************************************************)

RECURSIVE walk(_, _)
walk(dir, depth) ==
  IF depth > MaxWalkDepth THEN {}
  ELSE IF dir \notin WorldDirs THEN {}
  ELSE (IF ManifestAt(dir).present THEN {dir} ELSE {})
         \cup UNION { walk(sub, depth + 1) :
                      sub \in { q \in WorldDirs :
                                  ChildOf(q, dir) /\ Basename(q) \notin IMPORT_IGNORED_NAMES } }

collectSkillDirs(rootDir) == SortStrings(walk(rootDir, 0))

(***************************************************************************)
(* Requests                                                                *)
(***************************************************************************)

ImportRequest(source, target, workspaceDir, managedSkillsDir, ref, subdir, overwrite) ==
  [source |-> source, target |-> target, workspaceDir |-> workspaceDir,
   managedSkillsDir |-> managedSkillsDir, ref |-> ref, subdir |-> subdir,
   overwrite |-> overwrite]

CONFIG_DIR == << "/", "c" >>

\* utils.ts resolveUserPath: the absolute form of a path the user typed.
resolveUserPath(p) == Trim(p)

\* a?.trim() as a condition
TrimTruthy(s) == s # Undefined /\ Trim(s) # << >>

resolveTargetDir(params) ==
  IF params.target = "managed"
  THEN IF TrimTruthy(params.managedSkillsDir)
       THEN resolveUserPath(params.managedSkillsDir)
       ELSE PathJoin(CONFIG_DIR, S_skills)
  ELSE IF ~TrimTruthy(params.workspaceDir)
       THEN Undefined
       ELSE PathJoin(resolveUserPath(Trim(params.workspaceDir)), S_skills)

(***************************************************************************)
(* The remote side: what a clone or a checkout can do                      *)
(***************************************************************************)

R_branch == << "v", "1" >>

R_commit == << "c", "0" >>

\* A ref the repository does not have.
R_gone == << "g", "0" >>

Cloneable(url) == url = RepoUrl

\* git clone --branch takes a branch or a tag; git checkout also a commit.
RefKind(ref) ==
  IF ref = R_branch THEN "branch" ELSE IF ref = R_commit THEN "commit" ELSE "missing"

ShallowCloneCanSucceed(url, ref) ==
  Cloneable(url) /\ (Truthy(ref) => RefKind(ref) = "branch")

FullCloneCanSucceed(url) == Cloneable(url)

CheckoutCanSucceed(ref) == RefKind(ref) \in {"branch", "commit"}

(***************************************************************************)
(* serializeByKey (agents/skills/serialize.ts): a queue per key.  A task    *)
(* starts when every task queued earlier under its key has settled.         *)
(***************************************************************************)

Enqueue(q, key, c) ==
  IF key \in DOMAIN q
  THEN [q EXCEPT ![key] = Append(@, c)]
  ELSE [k \in DOMAIN q \cup {key} |-> IF k = key THEN << c >> ELSE q[k]]

AtHead(q, key, c) == key \in DOMAIN q /\ q[key] # << >> /\ Head(q[key]) = c

Dequeue(q, key) ==
  IF Len(q[key]) = 1
  THEN [k \in DOMAIN q \ {key} |-> q[k]]
  ELSE [q EXCEPT ![key] = Tail(@)]

S_importKey == << "s", "k", "i", "l", "l", "s", "I", "m", "p", "o", "r", "t", ":" >>

\* Variant: one key for every import.
importKeyGlobal(targetDir) == S_importKey

\* `skillsImport:${targetDir}`
importKey(targetDir) == S_importKey \o targetDir

(***************************************************************************)
(* Call slots                                                              *)
(***************************************************************************)

NoRequest ==
  ImportRequest(<< >>, "managed", Undefined, Undefined, Undefined, Undefined, FALSE)

ImportResult(ok, message, targetDir, imported, skipped, warnings) ==
  [ok |-> ok, message |-> message, targetDir |-> targetDir,
   imported |-> imported, skipped |-> skipped, warnings |-> warnings]

NoResult == ImportResult(FALSE, "", << >>, << >>, << >>, << >>)

NoCur == [skillDir |-> << >>, name |-> Undefined, destDir |-> << >>, exists |-> FALSE]

IdleCall ==
  [ kind |-> "none", pc |-> "idle", req |-> NoRequest, key |-> << >>,
    targetDir |-> << >>,
    \* resolveSource
    gitUrl |-> << >>, ref |-> Undefined, subdir |-> Undefined, tmpDir |-> 0,
    rootDir |-> << >>, cleanup |-> 0, warnings |-> << >>,
    \* importSkills
    skillDirs |-> << >>, idx |-> 1, usedDestNames |-> {}, cur |-> NoCur,
    imported |-> << >>, skipped |-> << >>,
    \* how the call ends: a result to return, or an exception in flight
    pending |-> "none", result |-> NoResult, exit |-> "none",
    \* history, for the properties: the target root as the task found it,
    \* the destinations removed, the temporary directory created, the
    \* failure mode met, the scan result
    pre |-> << >>, removed |-> {}, madeTmp |-> 0, mode |-> "none",
    scanned |-> << >>, copies |-> << >>, faulted |-> FALSE, post |-> << >>,
    \* the source versions at the call and at its end, the destinations
    \* checked and those created, the calls in progress when this one was made
    verIn |-> << >>, verOut |-> << >>, checks |-> << >>, made |-> {},
    concWith |-> {},
    \* discoverSkills: the request, the trimmed prompt, the mode, the limit,
    \* the repositories found and the position among them, the best
    \* candidate of the current repository, the result
    dreq |-> [prompt |-> << >>, mode |-> Undefined, limit |-> 0],
    prompt |-> << >>, dmode |-> Undefined, limit |-> 0, repos |-> << >>,
    ridx |-> 0, found |-> << >>,
    dresult |-> [ok |-> FALSE, message |-> "", candidates |-> << >>, warnings |-> << >>],
    \* history: what the requests and clones of the call did, the temporary
    \* directories it made
    trail |-> << >>, tmps |-> << >> ]

InSection(c) == call[c].pc \notin {"idle", "queued", "done"}

(***************************************************************************)
(* resolveSource, up to the first clone                                    *)
(***************************************************************************)

S_slashSkillMd == << "/" >> \o SKILL_MD

Resolved(kind, rootDir, warnings, gitUrl, ref, subdir) ==
  [kind |-> kind, rootDir |-> rootDir, warnings |-> warnings,
   gitUrl |-> gitUrl, ref |-> ref, subdir |-> subdir]

\* The warnings for values given both in the URL and as parameters.
BothWarnings(githubTree, params) ==
  (IF Truthy(githubTree.subdir) /\ Truthy(params.subdir)
   THEN << "both subdir: using the URL subdir" >> ELSE << >>)
  \o (IF Truthy(githubTree.ref) /\ Truthy(params.ref)
      THEN << "both ref: using the URL ref" >> ELSE << >>)

\* resolveSource from the normalized values on.
resolveNormalized(rawSource, normalizedGitUrl, normalizedRef, normalizedSubdir, warnings) ==
  IF pathExists(resolveUserPath(rawSource))
  THEN Resolved("local",
         PathJoin(IF EndsWith(rawSource, S_slashSkillMd)
                  THEN Dirname(resolveUserPath(rawSource))
                  ELSE resolveUserPath(rawSource),
                  IF Truthy(normalizedSubdir) THEN normalizedSubdir ELSE << >>),
         warnings, normalizedGitUrl, normalizedRef, normalizedSubdir)
  ELSE IF ~(\/ isUrlLike(normalizedGitUrl)
            \/ isGitSshLike(normalizedGitUrl)
            \/ EndsWith(ToLower(rawSource), S_dotGit))
  THEN Resolved("nopath", << >>, Append(warnings, "source path does not exist"),
                normalizedGitUrl, normalizedRef, normalizedSubdir)
  ELSE Resolved("git", << >>, warnings, normalizedGitUrl, normalizedRef, normalizedSubdir)

\* Variant: an explicit parameter wins over the value of the URL.
resolveParsedExplicitFirst(params, rawSource, githubTree) ==
  resolveNormalized(rawSource,
    IF githubTree.isTree THEN githubTree.repoUrl ELSE rawSource,
    Coalesce(params.ref, githubTree.ref),
    Coalesce(params.subdir, githubTree.subdir),
    BothWarnings(githubTree, params))

resolveParsed(params, rawSource, githubTree) ==
  resolveNormalized(rawSource,
    IF githubTree.isTree THEN githubTree.repoUrl ELSE rawSource,
    Coalesce(githubTree.ref, params.ref),
    Coalesce(githubTree.subdir, params.subdir),
    BothWarnings(githubTree, params))

resolveSourceLocal(params) ==
  IF Trim(params.source) = << >>
  THEN Resolved("missing", << >>, << "missing source" >>, << >>, Undefined, Undefined)
  ELSE resolveParsed(params, Trim(params.source), parseGitHubTreeUrl(Trim(params.source)))

\* git clone --depth 1 [--branch normalizedRef] normalizedGitUrl repoDir:
\* the branch asked for, if any, and the URL.
shallowCloneArgs(normalizedRef, normalizedGitUrl) ==
  [branch |-> IF Truthy(normalizedRef) THEN normalizedRef ELSE Undefined,
   url |-> normalizedGitUrl]

\* normalizedSubdir ? path.join(repoDir, normalizedSubdir) : repoDir
rootOfClone(repoDir, normalizedSubdir) ==
  IF Truthy(normalizedSubdir) THEN PathJoin(repoDir, normalizedSubdir) ELSE repoDir

\* The root a finished clone resolves to.
ClonedRoot(c) == rootOfClone(RepoDirOf(call[c].tmpDir), call[c].subdir)

(***************************************************************************)
(* importSkills                                                            *)
(***************************************************************************)

\* The task of a call settles: serializeByKey lets the next task of the key
\* start.
Settle(c, rec) ==
  /\ call' = [call EXCEPT ![c] = [rec EXCEPT !.pc = "done", !.post = fs, !.verOut = ver]]
  /\ queue' = Dequeue(queue, call[c].key)

\* Variant: success only if nothing was skipped.
FinalResultStrict(rec) ==
  LET ok == Len(rec.imported) > 0 /\ Len(rec.skipped) = 0
  IN ImportResult(ok, IF ok THEN "Imported skill(s)" ELSE "No skills imported",
                  rec.targetDir, rec.imported, rec.skipped, rec.warnings)

FinalResult(rec) ==
  LET ok == Len(rec.imported) > 0
      message == IF ok THEN "Imported skill(s)"
                 ELSE IF Len(rec.skipped) > 0
                      THEN "No skills imported (see skipped entries)"
                      ELSE "No skills imported"
  IN ImportResult(ok, message, rec.targetDir, rec.imported, rec.skipped, rec.warnings)

\* Variant: the key is built from the directory as the request spells it.
importKeyOfRequested(params) ==
  importKey(IF params.target = "managed" THEN params.managedSkillsDir
            ELSE params.workspaceDir)

\* Variant: the key also names the source.
importKeyOfSource(params) == importKey(resolveTargetDir(params)) \o params.source

\* The key of the task of a request: the resolved target root.
importKeyOf(params) == importKey(resolveTargetDir(params))

\* The calls in progress.
Active == { b \in Slots : call[b].pc \notin {"idle", "done"} }

\* importSkills up to serializeByKey: resolve the target root, queue the task.
importSkills(c, params) ==
  /\ call[c].pc = "idle"
  /\ \A b \in 1..(c - 1) : call[b].pc # "idle"
  /\ LET targetDir == resolveTargetDir(params)
         began == [call[c] EXCEPT !.kind = "import", !.req = params,
                                  !.verIn = ver, !.concWith = Active]
     IN
       IF targetDir = Undefined
       THEN /\ call' = [call EXCEPT ![c] =
                 [began EXCEPT !.pc = "done", !.verOut = ver, !.post = fs,
                           !.mode = "no-workspace", !.exit = "return",
                           !.result = ImportResult(FALSE,
                               "workspaceDir required when target=workspace",
                               << >>, << >>, << >>, << >>)]]
            /\ queue' = queue
       ELSE /\ call' = [call EXCEPT ![c] =
                 [began EXCEPT !.pc = "queued",
                           !.targetDir = targetDir, !.key = importKeyOf(params)]]
            /\ queue' = Enqueue(queue, importKeyOf(params), c)
  /\ UNCHANGED << fs, tmp, tmpSeq, ver, nfaults, hist, arg, ret >>

\* The task starts: resolveSource up to its first clone (mkdtemp included).
ResolveStart(c) ==
  /\ call[c].kind = "import"
  /\ call[c].pc = "queued"
  /\ AtHead(queue, call[c].key, c)
  /\ LET r == resolveSourceLocal(call[c].req)
         base == [call[c] EXCEPT !.pre = fs, !.gitUrl = r.gitUrl, !.ref = r.ref,
                                 !.subdir = r.subdir, !.warnings = r.warnings]
     IN IF r.kind = "git"
        THEN /\ tmpSeq' = tmpSeq + 1
             /\ tmp' = [t \in DOMAIN tmp \cup {tmpSeq + 1} |->
                          IF t = tmpSeq + 1
                          THEN [repo |-> FALSE, at |-> Undefined, by |-> "import"]
                          ELSE tmp[t]]
             /\ call' = [call EXCEPT ![c] =
                  [base EXCEPT !.pc = "clone", !.tmpDir = tmpSeq + 1,
                               !.madeTmp = tmpSeq + 1]]
        ELSE /\ call' = [call EXCEPT ![c] =
                  [base EXCEPT !.pc = "resolved", !.rootDir = r.rootDir,
                               !.mode = IF r.kind = "local" THEN "none" ELSE r.kind]]
             /\ UNCHANGED << tmp, tmpSeq >>
  /\ UNCHANGED << queue, fs, ver, nfaults, hist, arg, ret >>

\* History: the clone that just ran (the shallow one, with or without
\* --branch, or the full one) and how it ended.
CloneTrail(rec, outcome) ==
  rec.trail \o
    << IF rec.pc # "clone" THEN "full"
       ELSE IF shallowCloneArgs(rec.ref, rec.gitUrl).branch # Undefined
       THEN "shallow-branch" ELSE "shallow",
       outcome >>

\* After a successful clone: git checkout if a ref was requested.
AfterClone(c, at) ==
  /\ tmp' = [tmp EXCEPT ![call[c].tmpDir] = [@ EXCEPT !.repo = TRUE, !.at = at]]
  /\ call' = [call EXCEPT ![c] =
       IF Truthy(call[c].ref)
       THEN [@ EXCEPT !.pc = "checkout", !.trail = CloneTrail(call[c], "ok")]
       ELSE [@ EXCEPT !.pc = "resolved", !.rootDir = ClonedRoot(c),
                      !.cleanup = call[c].tmpDir, !.trail = CloneTrail(call[c], "ok")]]

\* git clone --depth 1 [--branch ref] url repoDir
ShallowClone(c) ==
  /\ call[c].pc = "clone"
  /\ \/ /\ ShallowCloneCanSucceed(call[c].gitUrl, call[c].ref)
        /\ AfterClone(c, call[c].ref)
        /\ UNCHANGED nfaults
     \/ /\ ~ShallowCloneCanSucceed(call[c].gitUrl, call[c].ref)
        /\ call' = [call EXCEPT ![c] =
             [@ EXCEPT !.pc = "fullclone", !.trail = CloneTrail(call[c], "failed")]]
        /\ UNCHANGED << tmp, nfaults >>
     \/ /\ ShallowCloneCanSucceed(call[c].gitUrl, call[c].ref)
        /\ nfaults < MaxFaults
        /\ nfaults' = nfaults + 1
        /\ call' = [call EXCEPT ![c] =
             [@ EXCEPT !.pc = "fullclone", !.faulted = TRUE,
                       !.trail = CloneTrail(call[c], "failed")]]
        /\ UNCHANGED tmp
  /\ UNCHANGED << queue, fs, tmpSeq, ver, hist, arg, ret >>

\* Variant: the temporary directory is left to the cleanup.
CloneFailedKeepTmp(c) ==
  /\ tmp' = tmp
  /\ call' = [call EXCEPT ![c] =
       [@ EXCEPT !.pc = "resolved", !.rootDir = << >>, !.cleanup = 0,
                 !.mode = "clone-failed", !.faulted = TRUE,
                 !.warnings = Append(@, "git clone failed"),
                 !.trail = CloneTrail(call[c], "failed")]]

\* Both clones failed: the temporary directory is removed, the diagnostic
\* of the clones is the last warning, the root is empty and the cleanup
\* does nothing.
CloneFailed(c) ==
  /\ tmp' = [t \in DOMAIN tmp \ {call[c].tmpDir} |-> tmp[t]]
  /\ call' = [call EXCEPT ![c] =
       [@ EXCEPT !.pc = "resolved", !.rootDir = << >>, !.cleanup = 0,
                 !.mode = "clone-failed", !.faulted = TRUE,
                 !.warnings = Append(@, "git clone failed"),
                 !.trail = CloneTrail(call[c], "failed")]]

\* The fallback: git clone url repoDir
FullClone(c) ==
  /\ call[c].pc = "fullclone"
  /\ \/ /\ FullCloneCanSucceed(call[c].gitUrl)
        /\ AfterClone(c, Undefined)
        /\ UNCHANGED nfaults
     \/ /\ ~FullCloneCanSucceed(call[c].gitUrl)
        /\ CloneFailed(c)
        /\ UNCHANGED nfaults
     \/ /\ FullCloneCanSucceed(call[c].gitUrl)
        /\ nfaults < MaxFaults
        /\ nfaults' = nfaults + 1
        /\ CloneFailed(c)
  /\ UNCHANGED << queue, fs, tmpSeq, ver, hist, arg, ret >>

\* git checkout ref, in repoDir; a failure is only a warning.
Checkout(c) ==
  /\ call[c].pc = "checkout"
  /\ LET done(ws) == [call[c] EXCEPT !.pc = "resolved", !.rootDir = ClonedRoot(c),
                                     !.cleanup = call[c].tmpDir, !.warnings = ws]
     IN \/ /\ CheckoutCanSucceed(call[c].ref)
           /\ tmp' = [tmp EXCEPT ![call[c].tmpDir].at = call[c].ref]
           /\ call' = [call EXCEPT ![c] = done(call[c].warnings)]
        \/ /\ ~CheckoutCanSucceed(call[c].ref)
           /\ call' = [call EXCEPT ![c] =
                         done(Append(call[c].warnings, "git checkout failed"))]
           /\ UNCHANGED tmp
  /\ UNCHANGED << queue, fs, tmpSeq, ver, nfaults, hist, arg, ret >>

\* warnings.at(-1) ?? "failed to resolve source"
LastWarning(ws) == IF ws = << >> THEN "failed to resolve source" ELSE ws[Len(ws)]

\* utils.ts ensureDir: mkdir -p
ensureDir(files, dir) ==
  IF dir \in DOMAIN files THEN files
  ELSE [q \in DOMAIN files \cup {dir} |-> IF q = dir THEN PlainDir ELSE files[q]]

\* Leave the try block with a return: the finally clause runs next.
LeaveWith(rec, mode, message) ==
  [rec EXCEPT !.pc = "cleanup", !.pending = "return", !.mode = mode,
              !.result = ImportResult(FALSE, message, rec.targetDir,
                                      rec.imported, rec.skipped, rec.warnings)]

\* Variant: the exception leaves the task without its finally clause and
\* without settling it.
LeaveThrowingStuck(rec, mode) ==
  [rec EXCEPT !.pc = "thrown", !.pending = "throw", !.mode = mode, !.faulted = TRUE]

\* Leave the try block with an exception: the finally clause runs next.
LeaveThrowing(rec, mode) ==
  [rec EXCEPT !.pc = "cleanup", !.pending = "throw", !.mode = mode, !.faulted = TRUE]

\* After resolveSource: the empty-root return, or the start of the try
\* block (pathExists, ensureDir, collectSkillDirs).
TryBegin(c) ==
  /\ call[c].pc = "resolved"
  /\ IF call[c].rootDir = << >>
     THEN /\ Settle(c, [call[c] EXCEPT !.exit = "return",
                 !.result = ImportResult(FALSE, LastWarning(call[c].warnings),
                               call[c].targetDir, call[c].imported,
                               call[c].skipped, call[c].warnings)])
          /\ UNCHANGED << fs, nfaults >>
     ELSE IF ~pathExists(call[c].rootDir)
     THEN /\ call' = [call EXCEPT ![c] = LeaveWith(@, "root-missing", "source not found")]
          /\ UNCHANGED << queue, fs, nfaults >>
     ELSE \/ /\ nfaults < MaxFaults
             /\ nfaults' = nfaults + 1
             /\ call' = [call EXCEPT ![c] = LeaveThrowing(@, "ensure-failed")]
             /\ UNCHANGED << queue, fs >>
          \/ /\ fs' = ensureDir(fs, call[c].targetDir)
             /\ LET skillDirs == collectSkillDirs(call[c].rootDir) IN
                  call' = [call EXCEPT ![c] =
                    IF Len(skillDirs) = 0
                    THEN LeaveWith(@, "no-manifest", "no SKILL.md found in source")
                    ELSE [@ EXCEPT !.pc = "entry", !.skillDirs = skillDirs,
                                   !.scanned = skillDirs, !.idx = 1,
                                   !.usedDestNames = {}]]
             /\ UNCHANGED << queue, nfaults >>
  /\ UNCHANGED << tmp, tmpSeq, ver, hist, arg, ret >>

\* continue / the end of the loop body: the next scanned directory, or the
\* end of the try block.
Advance(rec) ==
  IF rec.idx >= Len(rec.skillDirs)
  THEN [rec EXCEPT !.pc = "cleanup", !.idx = @ + 1, !.cur = NoCur]
  ELSE [rec EXCEPT !.pc = "entry", !.idx = @ + 1, !.cur = NoCur]

Skipped(sourceDir, reason) == [sourceDir |-> sourceDir, reason |-> reason]

\* fm.name, trimmed, if parseFrontmatter succeeds and it is a non-blank string.
DeclaredName(mf) ==
  IF mf.parses /\ mf.name # NoName /\ Trim(mf.name) # << >>
  THEN Trim(mf.name) ELSE Undefined

\* Variant: without a declared name the directory's own name is not used.
DestNameNoBase(usedDestNames, name, skillDir) ==
  LET dirNameBase == sanitizeSkillDirName(Coalesce(name, << >>))
  IN IF dirNameBase \in usedDestNames
     THEN dirNameBase \o << "-" >> \o NatToStr(Cardinality(usedDestNames) + 1)
     ELSE dirNameBase

\* The destination name of a scanned directory, given the names used so far.
DestName(usedDestNames, name, skillDir) ==
  LET dirNameBase == sanitizeSkillDirName(Coalesce(name, Basename(skillDir)))
  IN IF dirNameBase \in usedDestNames
     THEN dirNameBase \o << "-" >> \o NatToStr(Cardinality(usedDestNames) + 1)
     ELSE dirNameBase

\* Variant: an existing destination is a conflict whatever overwrite says.
ConflictSkipAlways(exists, overwrite) == exists

\* Variant: an existing destination is never a conflict.
ConflictSkipNever(exists, overwrite) == FALSE

\* exists && params.overwrite !== true: the entry is a conflict.
ConflictSkip(exists, overwrite) == exists /\ overwrite # TRUE

\* exists && params.overwrite === true: the old destination is removed first.
NeedsRemove(exists, overwrite) == exists /\ overwrite = TRUE

\* One scanned directory up to the conflict check: readFile, parseFrontmatter,
\* the destination name, pathExists(destDir).
EntryCheck(c) ==
  /\ call[c].pc = "entry"
  /\ LET skillDir == call[c].skillDirs[call[c].idx]
         mf == ManifestAt(skillDir)
     IN IF ~(mf.present /\ mf.readable)
        THEN call' = [call EXCEPT ![c] =
               Advance([@ EXCEPT !.skipped = Append(@, Skipped(skillDir, "invalid-skill"))])]
        ELSE LET name == DeclaredName(mf)
                 dirName == DestName(call[c].usedDestNames, name, skillDir)
                 destDir == PathJoin(call[c].targetDir, dirName)
                 exists == pathExists(destDir)
                 cur == [skillDir |-> skillDir, name |-> name,
                         destDir |-> destDir, exists |-> exists]
                 rec == [call[c] EXCEPT !.usedDestNames = @ \cup {dirName},
                           !.cur = cur, !.checks = Append(@, cur)]
             IN call' = [call EXCEPT ![c] =
                  IF ConflictSkip(exists, call[c].req.overwrite)
                  THEN Advance([rec EXCEPT !.skipped = Append(@, Skipped(skillDir, "conflict"))])
                  ELSE IF NeedsRemove(exists, call[c].req.overwrite)
                  THEN [rec EXCEPT !.pc = "rm"]
                  ELSE [rec EXCEPT !.pc = "cp"]]
  /\ UNCHANGED << queue, fs, tmp, tmpSeq, ver, nfaults, hist, arg, ret >>

\* fs.rm(p, {recursive, force}) on the target side.
RemoveTree(files, p) == [q \in {r \in DOMAIN files : ~Under(r, p)} |-> files[q]]

\* overwrite: fs.rm(destDir); it is outside the loop's try/catch.
RemoveDest(c) ==
  /\ call[c].pc = "rm"
  /\ \/ /\ fs' = RemoveTree(fs, call[c].cur.destDir)
        /\ call' = [call EXCEPT ![c] =
             [@ EXCEPT !.pc = "cp", !.removed = @ \cup {call[c].cur.destDir}]]
        /\ UNCHANGED nfaults
     \/ /\ nfaults < MaxFaults
        /\ nfaults' = nfaults + 1
        /\ call' = [call EXCEPT ![c] = LeaveThrowing(@, "rm-failed")]
        /\ \/ fs' = fs
           \/ /\ call[c].cur.destDir \in DOMAIN fs
              /\ fs' = [fs EXCEPT ![call[c].cur.destDir].partial = TRUE]
  /\ UNCHANGED << queue, tmp, tmpSeq, ver, hist, arg, ret >>

\* fs.cp(skillDir, destDir, {recursive, force, filter}): the filter drops
\* every path whose base name is ignored, the copied root included.
CopyTree(files, skillDir, destDir, partial) ==
  IF Basename(skillDir) \in IMPORT_IGNORED_NAMES THEN files
  ELSE [q \in DOMAIN files \cup {destDir} |->
          IF q = destDir
          THEN Content(skillDir, VerOf(skillDir), ManifestAt(skillDir), partial)
          ELSE files[q]]

Imported(cur) ==
  [name |-> cur.name, sourceDir |-> cur.skillDir, destDir |-> cur.destDir,
   skillPath |-> PathJoin(cur.destDir, SKILL_MD)]

CopySkill(c) ==
  /\ call[c].pc = "cp"
  /\ LET cur == call[c].cur IN
     \/ /\ fs' = CopyTree(fs, cur.skillDir, cur.destDir, FALSE)
        /\ call' = [call EXCEPT ![c] =
             Advance([@ EXCEPT !.imported = Append(@, Imported(cur)),
                               !.copies = Append(@, VerOf(cur.skillDir)),
                               !.made = @ \cup (DOMAIN fs' \ DOMAIN fs)])]
        /\ UNCHANGED nfaults
     \/ /\ nfaults < MaxFaults
        /\ nfaults' = nfaults + 1
        /\ call' = [call EXCEPT ![c] =
             Advance([@ EXCEPT !.skipped = Append(@, Skipped(cur.skillDir, "copy-failed")),
                               !.faulted = TRUE])]
        /\ \/ fs' = fs
           \/ fs' = CopyTree(fs, cur.skillDir, cur.destDir, TRUE)
  /\ UNCHANGED << queue, tmp, tmpSeq, ver, hist, arg, ret >>

\* Variant: the cleanup handle does nothing.
RunCleanupKeep(dirs, token) == dirs

\* resolved.cleanup: fs.rm(tmpDir, {recursive, force}); a no-op (token 0) for
\* a local source.
RunCleanup(dirs, token) == [t \in DOMAIN dirs \ {token} |-> dirs[t]]

\* finally: resolved.cleanup(); then the pending return or exception, or
\* the final result.
Cleanup(c) ==
  /\ call[c].pc = "cleanup"
  /\ tmp' = RunCleanup(tmp, call[c].cleanup)
  /\ Settle(c, CASE call[c].pending = "return" -> [call[c] EXCEPT !.exit = "return"]
                 [] call[c].pending = "throw" -> [call[c] EXCEPT !.exit = "throw"]
                 [] OTHER -> [call[c] EXCEPT !.exit = "return",
                                             !.result = FinalResult(call[c])])
  /\ UNCHANGED << fs, tmpSeq, ver, nfaults, hist, arg, ret >>

(***************************************************************************)
(* skills-discover.ts: tokens, scores, ranking                             *)
(***************************************************************************)

DISCOVERY_IGNORED_NAMES ==
  { << ".", "g", "i", "t" >>,
    << "n", "o", "d", "e", "_", "m", "o", "d", "u", "l", "e", "s" >>,
    << "d", "i", "s", "t" >>,
    << "b", "u", "i", "l", "d" >>,
    << "o", "u", "t" >>,
    << ".", "n", "e", "x", "t" >>,
    << ".", "t", "u", "r", "b", "o" >>,
    << ".", "v", "e", "n", "v" >>,
    << "v", "e", "n", "v" >>,
    << ".", "i", "d", "e", "a" >>,
    << ".", "v", "s", "c", "o", "d", "e" >> }

ENGLISH_STOPWORDS ==
  { << "t", "h", "e" >>,
    << "a" >>,
    << "a", "n" >>,
    << "i", "s" >>,
    << "a", "r", "e" >>,
    << "w", "a", "s" >>,
    << "w", "e", "r", "e" >>,
    << "b", "e" >>,
    << "b", "e", "e", "n" >>,
    << "h", "a", "v", "e" >>,
    << "h", "a", "s" >>,
    << "h", "a", "d" >>,
    << "d", "o" >>,
    << "d", "o", "e", "s" >>,
    << "d", "i", "d" >>,
    << "w", "i", "l", "l" >>,
    << "w", "o", "u", "l", "d" >>,
    << "t", "o" >>,
    << "o", "f" >>,
    << "i", "n" >>,
    << "f", "o", "r" >>,
    << "o", "n" >>,
    << "w", "i", "t", "h" >>,
    << "a", "t" >>,
    << "b", "y" >>,
    << "f", "r", "o", "m" >>,
    << "a", "n", "d" >>,
    << "b", "u", "t" >>,
    << "i", "f" >>,
    << "o", "r" >>,
    << "t", "h", "i", "s" >>,
    << "t", "h", "a", "t" >>,
    << "u", "s", "e" >>,
    << "u", "s", "i", "n", "g" >>,
    << "s", "k", "i", "l", "l" >>,
    << "s", "k", "i", "l", "l", "s" >>,
    << "c", "l", "a", "u", "d", "e" >>,
    << "o", "p", "e", "n", "c", "l", "a", "w" >>,
    << "b", "o", "t" >>,
    << "a", "s", "s", "i", "s", "t", "a", "n", "t" >>,
    << "p", "l", "e", "a", "s", "e" >>,
    << "n", "e", "e", "d" >>,
    << "w", "a", "n", "t" >>,
    << "h", "e", "l", "p" >> }

\* [\p{L}\p{N}]: the letters and digits among the characters of the model.
AlphaNum == SafeChars \ { "_", "-" }

\* The characters above 0x7f among the characters of the model: none.
NonAsciiChars == {}

\* match(/[\p{L}\p{N}]+/gu): the maximal runs of letters and digits.
RECURSIVE TokensOf(_)
TokensOf(s) ==
  IF s = << >> THEN << >>
  ELSE IF Head(s) \notin AlphaNum THEN TokensOf(Tail(s))
  ELSE << SubSeq(s, 1, Len(s) - Len(StripLeft(s, AlphaNum))) >>
         \o TokensOf(StripLeft(s, AlphaNum))

tokenize(text) == TokensOf(ToLower(text))

RECURSIVE Concat(_)
Concat(parts) == IF parts = << >> THEN << >> ELSE Head(parts) \o Concat(Tail(parts))

CountIn(s, class) == Cardinality({ i \in 1..Len(s) : s[i] \in class })

\* nonAscii / joined.length < 0.2
isMostlyAscii(tokens) ==
  \/ Concat(tokens) = << >>
  \/ 5 * CountIn(Concat(tokens), NonAsciiChars) < Len(Concat(tokens))

\* Array.from(new Set(seq)): the first occurrences, in order.
RECURSIVE Dedup(_, _)
Dedup(seq, seen) ==
  IF seq = << >> THEN << >>
  ELSE IF Head(seq) \in seen THEN Dedup(Tail(seq), seen)
  ELSE << Head(seq) >> \o Dedup(Tail(seq), seen \cup {Head(seq)})

\* sort((a, b) => b.length - a.length): stable, longest first.
RECURSIVE InsertByLength(_, _)
InsertByLength(sorted, t) ==
  IF sorted = << >> THEN << t >>
  ELSE IF Len(Head(sorted)) >= Len(t)
  THEN << Head(sorted) >> \o InsertByLength(Tail(sorted), t)
  ELSE << t >> \o sorted

RECURSIVE SortByLength(_, _)
SortByLength(seq, acc) ==
  IF seq = << >> THEN acc
  ELSE SortByLength(Tail(seq), InsertByLength(acc, Head(seq)))

FilterStopwords(tokens, asciiMode) ==
  LET Keep(t) == t # << >> /\ (asciiMode => t \notin ENGLISH_STOPWORDS)
  IN SelectSeq(tokens, Keep)

pickQueryTokens(prompt, maxTokens) ==
  SliceTo(SortByLength(Dedup(FilterStopwords(tokenize(prompt),
                                             isMostlyAscii(tokenize(prompt))), {}),
                       << >>),
          Max(1, maxTokens))

MaxQueryTokens == 24

\* (number absent): the undefined of the source, for numbers.
NoNumber == 0 - 1

\* A score: an exact fraction num/den of the interval [0, 1].
Score(num, den) == [num |-> num, den |-> den]

ZeroScore == Score(0, 1)

ScoreLess(a, b) == a.num * b.den < b.num * a.den

TokenSet(tokens) == { tokens[i] : i \in DOMAIN tokens }

\* params.name ?? ""
OrEmpty(s) == IF s = Undefined THEN << >> ELSE s

\* s.includes(sub)
Includes(s, sub) ==
  \E i \in 0..(Len(s) - Len(sub)) : SubSeq(s, i + 1, i + Len(sub)) = sub

\* (params.name ?? "").toLowerCase().replaceAll("-", " ").trim()
NameNorm(name) == Trim(ReplaceEach(ToLower(OrEmpty(name)), {"-"}, " "))

\* The exact-ish match that earns the bonus.
ExactIsh(queryTokens, name) ==
  NameNorm(name) # << >> /\ Includes(JoinWith(queryTokens, " "), NameNorm(name))

\* ScoreFrom with neither minimum taken.
ScoreFromUncapped(q, ns, nameOverlap, descOverlap, keywordOverlap, bonus) ==
  LET den == 440 * ns * q
      normalized == 20 * (10 * nameOverlap * q
                          + (7 * descOverlap + 5 * keywordOverlap) * ns)
  IN Score(IF bonus THEN normalized + 66 * ns * q ELSE normalized, den)

\* raw = nameScore + 0.7 descScore + 0.5 keywordScore; min(raw / 2.2, 1);
\* plus 0.15, capped at 1, with the bonus.  Over the denominator 440 ns q.
ScoreFrom(q, ns, nameOverlap, descOverlap, keywordOverlap, bonus) ==
  LET den == 440 * ns * q
      normalized == Min(den, 20 * (10 * nameOverlap * q
                                   + (7 * descOverlap + 5 * keywordOverlap) * ns))
  IN Score(IF bonus THEN Min(den, normalized + 66 * ns * q) ELSE normalized, den)

ScoreOfTokens(queryTokens, nameTokens, descTokens, keywordTokens, name) ==
  IF queryTokens = << >> THEN ZeroScore
  ELSE ScoreFrom(Max(1, Cardinality(TokenSet(queryTokens))),
                 Max(1, Cardinality(nameTokens)),
                 Cardinality(TokenSet(queryTokens) \cap nameTokens),
                 Cardinality(TokenSet(queryTokens) \cap descTokens),
                 Cardinality(TokenSet(queryTokens) \cap keywordTokens),
                 ExactIsh(queryTokens, name))

scoreSkillMatch(prompt, name, description, keywords) ==
  ScoreOfTokens(pickQueryTokens(prompt, MaxQueryTokens),
                TokenSet(tokenize(ReplaceEach(OrEmpty(name), {"-"}, " "))),
                TokenSet(tokenize(OrEmpty(description))),
                UNION { TokenSet(tokenize(keywords[i])) : i \in DOMAIN keywords },
                name)

Candidate(provider, source, score, reason, skillName, description, repoFullName, repoStars, repoDefaultBranch, subdir) ==
  [provider |-> provider, source |-> source, score |-> score, reason |-> reason,
   skillName |-> skillName, description |-> description,
   repoFullName |-> repoFullName, repoStars |-> repoStars,
   repoDefaultBranch |-> repoDefaultBranch, subdir |-> subdir]

\* An entry of the curated index.
IndexEntry(name, description, url, keywords) ==
  [name |-> name, description |-> description, url |-> url, keywords |-> keywords]

\* typeof x === "string" ? x.trim() : undefined
TrimOpt(s) == IF s = Undefined THEN Undefined ELSE Trim(s)

\* keywords.map((k) => String(k ?? "").trim()).filter(Boolean)
CleanKeywords(keywords) ==
  LET NonEmpty(k) == k # << >>
  IN SelectSeq([i \in DOMAIN keywords |-> Trim(OrEmpty(keywords[i]))], NonEmpty)

PoolCandidate(prompt, entry) ==
  Candidate("skill-pool", Trim(OrEmpty(entry.url)),
            scoreSkillMatch(prompt, TrimOpt(entry.name), TrimOpt(entry.description),
                            CleanKeywords(entry.keywords)),
            "Matched AlataChan/skill-pool index",
            TrimOpt(entry.name), TrimOpt(entry.description),
            Undefined, NoNumber, Undefined, Undefined)

\* scored.sort((a, b) => b.score - a.score): stable, best first.
RECURSIVE InsertByScore(_, _)
InsertByScore(sorted, cand) ==
  IF sorted = << >> THEN << cand >>
  ELSE IF ~ScoreLess(Head(sorted).score, cand.score)
  THEN << Head(sorted) >> \o InsertByScore(Tail(sorted), cand)
  ELSE << cand >> \o sorted

\* Variant: the candidates stay in the order of the index.
Unsorted(seq, acc) == seq

RECURSIVE SortByScore(_, _)
SortByScore(seq, acc) ==
  IF seq = << >> THEN acc
  ELSE SortByScore(Tail(seq), InsertByScore(acc, Head(seq)))

\* Variant: no score is below the threshold.
BelowThresholdNever(score, threshold) == FALSE

\* score < params.threshold
BelowThreshold(score, threshold) == ScoreLess(score, threshold)

\* The loop of rankSkillPoolIndex: the entries with a url that score at or
\* above the threshold.
RECURSIVE ScoredEntries(_, _, _)
ScoredEntries(prompt, entries, threshold) ==
  IF entries = << >> THEN << >>
  ELSE IF Trim(OrEmpty(Head(entries).url)) = << >>
  THEN ScoredEntries(prompt, Tail(entries), threshold)
  ELSE IF BelowThreshold(PoolCandidate(prompt, Head(entries)).score, threshold)
  THEN ScoredEntries(prompt, Tail(entries), threshold)
  ELSE << PoolCandidate(prompt, Head(entries)) >>
         \o ScoredEntries(prompt, Tail(entries), threshold)

rankSkillPoolIndex(prompt, index, limit, threshold) ==
  SliceTo(SortByScore(ScoredEntries(prompt,
                                    IF index.isArray THEN index.skills ELSE << >>,
                                    threshold),
                      << >>),
          Max(1, limit))

thresholdSkillPool == Score(1, 4)

thresholdGitHub == Score(7, 20)

DefaultLimit == 5

MaxLimit == 10

\* Math.max(1, Math.min(10, Math.floor(limit))), 5 without a number.
ClampLimit(limit) ==
  IF limit = NoNumber THEN DefaultLimit ELSE Max(1, Min(MaxLimit, limit))

(***************************************************************************)
(* skills-discover.ts: the code-host search                                *)
(***************************************************************************)

S_treeUrlBase == S_https \o S_githubHost \o << "/" >>

S_main == << "m", "a", "i", "n" >>

\* buildTreeUrl
buildTreeUrl(fullName, branch, subdir) ==
  LET base == S_treeUrlBase \o fullName \o << "/" >> \o S_tree \o << "/" >> \o branch
      sub == IF subdir = Undefined THEN << >> ELSE StripLeft(Trim(subdir), {"/"})
  IN IF sub = << >> THEN base ELSE base \o << "/" >> \o sub

\* An item of the repository search response.
RepoItem(full_name, clone_url, default_branch, stargazers_count) ==
  [full_name |-> full_name, clone_url |-> clone_url,
   default_branch |-> default_branch, stargazers_count |-> stargazers_count]

ItemFullName(repo) == Trim(OrEmpty(repo.full_name))

ItemCloneUrl(repo) == Trim(OrEmpty(repo.clone_url))

ItemBranch(repo) ==
  IF repo.default_branch = Undefined THEN S_main ELSE Trim(repo.default_branch)

\* collectSkillDirs of skills-discover.ts
RECURSIVE discoverWalk(_, _)
discoverWalk(dir, depth) ==
  IF depth > MaxWalkDepth THEN {}
  ELSE IF dir \notin WorldDirs THEN {}
  ELSE (IF ManifestAt(dir).present THEN {dir} ELSE {})
         \cup UNION { discoverWalk(sub, depth + 1) :
                      sub \in { q \in WorldDirs :
                                  ChildOf(q, dir) /\ Basename(q) \notin DISCOVERY_IGNORED_NAMES } }

discoverCollectSkillDirs(rootDir) == SortStrings(discoverWalk(rootDir, 0))

\* fm.description, trimmed, if parseFrontmatter succeeds and it is a
\* non-blank string.
DeclaredDescription(mf) ==
  IF mf.parses /\ mf.description # NoName /\ Trim(mf.description) # << >>
  THEN Trim(mf.description) ELSE Undefined

\* path.relative(repoDir, dir).replaceAll(path.sep, "/")
RelativeTo(repoDir, dir) ==
  IF dir = repoDir THEN << >> ELSE SliceFrom(dir, Len(repoDir) + 1)

\* rel === "." ? undefined : rel
SubdirOf(rel) == IF rel = << ".">> THEN Undefined ELSE rel

RepoCandidate(prompt, repo, repoDir, dir) ==
  Candidate("github",
            buildTreeUrl(ItemFullName(repo), ItemBranch(repo),
                         SubdirOf(RelativeTo(repoDir, dir))),
            scoreSkillMatch(prompt, DeclaredName(ManifestAt(dir)),
                            DeclaredDescription(ManifestAt(dir)), << >>),
            "Matched GitHub repo search (sorted by stars)",
            DeclaredName(ManifestAt(dir)), DeclaredDescription(ManifestAt(dir)),
            ItemFullName(repo), repo.stargazers_count, ItemBranch(repo),
            SubdirOf(RelativeTo(repoDir, dir)))

\* Variant: the first directory at or above the threshold is kept.
RECURSIVE BestOfFirst(_, _, _, _, _, _)
BestOfFirst(prompt, repo, repoDir, dirs, threshold, best) ==
  IF dirs = << >> THEN best
  ELSE IF ~ManifestAt(Head(dirs)).readable
          \/ BelowThreshold(RepoCandidate(prompt, repo, repoDir, Head(dirs)).score, threshold)
          \/ best # << >>
  THEN BestOfFirst(prompt, repo, repoDir, Tail(dirs), threshold, best)
  ELSE BestOfFirst(prompt, repo, repoDir, Tail(dirs), threshold,
                   << RepoCandidate(prompt, repo, repoDir, Head(dirs)) >>)

\* The loop over the skill directories of one repository: the best
\* candidate at or above the threshold so far, as a list of at most one.
RECURSIVE BestOf(_, _, _, _, _, _)
BestOf(prompt, repo, repoDir, dirs, threshold, best) ==
  IF dirs = << >> THEN best
  ELSE IF ~ManifestAt(Head(dirs)).readable
  THEN BestOf(prompt, repo, repoDir, Tail(dirs), threshold, best)
  ELSE IF BelowThreshold(RepoCandidate(prompt, repo, repoDir, Head(dirs)).score, threshold)
  THEN BestOf(prompt, repo, repoDir, Tail(dirs), threshold, best)
  ELSE IF best = << >>
          \/ ScoreLess(best[1].score, RepoCandidate(prompt, repo, repoDir, Head(dirs)).score)
  THEN BestOf(prompt, repo, repoDir, Tail(dirs), threshold,
              << RepoCandidate(prompt, repo, repoDir, Head(dirs)) >>)
  ELSE BestOf(prompt, repo, repoDir, Tail(dirs), threshold, best)

(***************************************************************************)
(* The environment: a local source directory is edited                     *)
(***************************************************************************)

P_one == << "/", "s", "/", "o", "n", "e" >>

P_two == << "/", "s", "/", "t", "w", "o" >>

P_bad == << "/", "s", "/", "b", "a", "d" >>

\* A skill directory whose own name is on the ignore list.
P_dist == << "/", "s", "/", "d", "i", "s", "t" >>

P_none == << "/", "s", "/", "n", "o", "n", "e" >>

P_nope == << "/", "n", "o", "p", "e" >>

P_blank == << " ", " " >>

P_ws == << "/", "w" >>

P_wsSkills == << " ", "/", "w", "/", "s", "k", "i", "l", "l", "s" >>

U_dead == << "h", "t", "t", "p", ":", "/", "/", "h", "/", "x" >>

D_k == << "k" >>

D_zz == << "z", "z" >>

EditSource(d) ==
  /\ ver[d] < MaxVer
  /\ ver' = [ver EXCEPT ![d] = @ + 1]
  /\ UNCHANGED << call, queue, fs, tmp, tmpSeq, nfaults, hist, arg, ret >>

(***************************************************************************)
(* The requests of the model                                               *)
(***************************************************************************)

Req(source, t, ref, subdir, overwrite) ==
  ImportRequest(source, t.target, t.workspaceDir, t.managedSkillsDir, ref, subdir, overwrite)

\* <workspaceDir>/skills = /w/skills
WsTarget == [target |-> "workspace", workspaceDir |-> P_ws, managedSkillsDir |-> Undefined]

\* the same root, reached as the managed directory
ManagedSameTarget ==
  [target |-> "managed", workspaceDir |-> Undefined, managedSkillsDir |-> P_wsSkills]

\* CONFIG_DIR/skills
ManagedTarget == [target |-> "managed", workspaceDir |-> P_ws, managedSkillsDir |-> Undefined]

NoWsTarget == [target |-> "workspace", workspaceDir |-> P_blank, managedSkillsDir |-> Undefined]

\* Overlapping calls.
ConcRequests ==
  { Req(P_one, t, Undefined, Undefined, FALSE) :
      t \in {WsTarget, ManagedSameTarget, ManagedTarget} }
  \cup { Req(P_one, WsTarget, Undefined, Undefined, TRUE),
         Req(P_two, WsTarget, Undefined, Undefined, FALSE) }

\* One client calling again and again on one source and one target.
SeqRequests == { Req(P_one, WsTarget, Undefined, Undefined, ow) : ow \in BOOLEAN }

\* One call at a time, every kind of source.
SoloRequests ==
  { Req(src, WsTarget, Undefined, Undefined, ow) :
      src \in {P_one, P_two, LocalRoot}, ow \in BOOLEAN }
  \cup { Req(src, WsTarget, Undefined, Undefined, FALSE) :
           src \in {P_bad, P_none, P_nope, P_blank, U_dead, P_dist} }
  \cup { Req(P_one, NoWsTarget, Undefined, Undefined, FALSE),
         Req(LocalRoot, WsTarget, Undefined, D_zz, FALSE),
         Req(RepoUrl, WsTarget, Undefined, D_zz, FALSE) }
  \cup { Req(RepoUrl, WsTarget, ref, Undefined, TRUE) :
           ref \in {Undefined, R_branch, R_commit, R_gone} }

(***************************************************************************)
(* What the index and the repository search answer                         *)
(***************************************************************************)

Q_alpha == << "a", "l", "p", "h", "a" >>

Q_alphaSpaced == << " ", "a", "l", "p", "h", "a" >>

Q_zeta == << "z", "e", "t", "a" >>

M_other == << "x" >>

N_alphaKit == << "a", "l", "p", "h", "a", "-", "k", "i", "t" >>

N_alphaKitXY == << "a", "l", "p", "h", "a", "-", "k", "i", "t", "-", "x", "-", "y" >>

F_good == << "o", "/", "r" >>

F_dead == << "o", "/", "x" >>

PoolIndex ==
  [isArray |-> TRUE,
   skills |-> << IndexEntry(N_alphaKit, Undefined, RepoUrl, << Q_alpha >>),
                 IndexEntry(Q_alpha, Undefined, P_blank, << >>),
                 IndexEntry(N_alphaKitXY, Undefined, RepoUrl, << >>) >>]

NoIndex == [isArray |-> FALSE, skills |-> << >>]

IndexResponses == { PoolIndex, NoIndex }

ItemGood == RepoItem(F_good, RepoUrl, R_branch, 1)

ItemDead == RepoItem(F_dead, U_dead, Undefined, 2)

ItemNameless == RepoItem(Undefined, RepoUrl, R_branch, 3)

SearchResponses ==
  { << >>, << ItemDead >>, << ItemNameless, ItemDead, ItemGood >>,
    << ItemGood, ItemDead, ItemGood >> }

(***************************************************************************)
(* discoverSkills                                                          *)
(***************************************************************************)

M_auto == << "a", "u", "t", "o" >>

M_skillPool == << "s", "k", "i", "l", "l", "-", "p", "o", "o", "l" >>

M_github == << "g", "i", "t", "h", "u", "b" >>

S_discoverKey ==
  << "s", "k", "i", "l", "l", "s", "D", "i", "s", "c", "o", "v", "e", "r", ":" >>

\* `skillsDiscover:${mode}:${prompt}`
discoverKey(mode, prompt) == S_discoverKey \o mode \o << ":" >> \o prompt

DiscoverRequest(prompt, mode, limit) == [prompt |-> prompt, mode |-> mode, limit |-> limit]

\* params.mode ?? "auto"
ModeOf(params) == Coalesce(params.mode, M_auto)

\* Variant: the key is built from the prompt as the request spells it.
discoverKeyOfRaw(params) == discoverKey(ModeOf(params), params.prompt)

\* The key of the task of a request: the mode and the trimmed prompt.
discoverKeyOf(params) == discoverKey(ModeOf(params), Trim(params.prompt))

DiscoverResult(ok, message, candidates, warnings) ==
  [ok |-> ok, message |-> message, candidates |-> candidates, warnings |-> warnings]

\* os.tmpdir()/openclaw-skill-discover-XXXXXX, made unique by mkdtemp.
DiscoverTmpDirOf(tok) == S_tmpDiscover \o NatToStr(tok)

DiscoverRepoDirOf(tok) == PathJoin(DiscoverTmpDirOf(tok), S_repo)

\* discoverSkills up to serializeByKey: the prompt, the limit, the mode.
discoverSkills(c, params) ==
  /\ call[c].pc = "idle"
  /\ \A b \in 1..(c - 1) : call[b].pc # "idle"
  /\ LET began == [call[c] EXCEPT !.kind = "discover", !.dreq = params,
                                  !.verIn = ver, !.concWith = Active]
     IN
       IF Trim(params.prompt) = << >>
       THEN /\ call' = [call EXCEPT ![c] =
                 [began EXCEPT !.pc = "done", !.verOut = ver, !.post = fs,
                           !.exit = "return", !.trail = << "empty-prompt" >>,
                           !.dresult = DiscoverResult(FALSE, "prompt is required",
                                                      << >>, << >>)]]
            /\ queue' = queue
       ELSE /\ call' = [call EXCEPT ![c] =
                 [began EXCEPT !.pc = "queued", !.prompt = Trim(params.prompt),
                           !.dmode = ModeOf(params), !.limit = ClampLimit(params.limit),
                           !.key = discoverKeyOf(params)]]
            /\ queue' = Enqueue(queue, discoverKeyOf(params), c)
  /\ UNCHANGED << fs, tmp, tmpSeq, ver, nfaults, hist, arg, ret >>

Returning(rec, ok, message, candidates) ==
  [rec EXCEPT !.exit = "return",
              !.dresult = DiscoverResult(ok, message, candidates, rec.warnings)]

\* The task starts: it runs up to its first request.
DiscoverStart(c) ==
  /\ call[c].kind = "discover"
  /\ call[c].pc = "queued"
  /\ AtHead(queue, call[c].key, c)
  /\ IF call[c].dmode \in {M_auto, M_skillPool}
     THEN /\ call' = [call EXCEPT ![c].pc = "index"]
          /\ UNCHANGED queue
     ELSE IF call[c].dmode = M_github
     THEN /\ call' = [call EXCEPT ![c].pc = "search"]
          /\ UNCHANGED queue
     ELSE Settle(c, Returning([call[c] EXCEPT !.trail = Append(@, "unknown-mode")],
                              FALSE, "Unknown mode", << >>))
  /\ UNCHANGED << fs, tmp, tmpSeq, ver, nfaults, hist, arg, ret >>

\* Variant: the repository search runs in mode skill-pool too.
AfterPoolSearch(c, rec) ==
  /\ call' = [call EXCEPT ![c] = [rec EXCEPT !.pc = "search"]]
  /\ UNCHANGED queue

\* After the curated index gave nothing: the end in mode skill-pool, the
\* repository search otherwise.
AfterPool(c, rec) ==
  IF rec.dmode = M_skillPool
  THEN Settle(c, Returning(rec, FALSE, "No candidates found via skill-pool", << >>))
  ELSE /\ call' = [call EXCEPT ![c] = [rec EXCEPT !.pc = "search"]]
       /\ UNCHANGED queue

\* Variant: the repository search follows the index whatever it ranked.
RankedSearchAnyway(c, rec, ranked) ==
  AfterPool(c, IF ranked # << >> THEN [rec EXCEPT !.trail = Append(@, "ranked")] ELSE rec)

\* ranked.length > 0: the ranked candidates are the result ("ranked" in the
\* trail of the call records that the index yielded candidates).
Ranked(c, rec, ranked) ==
  IF ranked # << >>
  THEN Settle(c, Returning([rec EXCEPT !.trail = Append(@, "ranked")], TRUE,
                   "Found " \o ToString(Len(ranked)) \o " candidate(s) via skill-pool",
                   ranked))
  ELSE AfterPool(c, rec)

\* The index request ends: fetchJsonWithTimeout returns the index or an error.
FetchIndex(c) ==
  /\ call[c].pc = "index"
  /\ \/ \E index \in IndexResponses :
          Ranked(c, [call[c] EXCEPT !.trail = Append(@, "index-ok")],
                 rankSkillPoolIndex(call[c].prompt, index, call[c].limit,
                                    thresholdSkillPool))
     \/ AfterPool(c, [call[c] EXCEPT
                        !.trail = Append(@, "index-failed"),
                        !.warnings = Append(@, "skill-pool index fetch failed")])
  /\ UNCHANGED << fs, tmp, tmpSeq, ver, nfaults, hist, arg, ret >>

\* The first repository from position from on that has a name and a clone
\* URL; 0 if there is none.
RECURSIVE FirstUsable(_, _)
FirstUsable(repos, from) ==
  IF from > Len(repos) THEN 0
  ELSE IF ItemFullName(repos[from]) # << >> /\ ItemCloneUrl(repos[from]) # << >>
  THEN from
  ELSE FirstUsable(repos, from + 1)

\* The loop over the repositories, at position i (0: past the end):
\* mkdtemp for the next repository, or the end of the search.
NextRepo(c, rec, i, dirs) ==
  IF i = 0
  THEN /\ Settle(c, Returning(rec, FALSE, "No candidates found via GitHub", << >>))
       /\ tmp' = dirs
       /\ UNCHANGED tmpSeq
  ELSE /\ tmpSeq' = tmpSeq + 1
       /\ tmp' = [t \in DOMAIN dirs \cup {tmpSeq + 1} |->
                    IF t = tmpSeq + 1
                    THEN [repo |-> FALSE, at |-> Undefined, by |-> "discover"]
                    ELSE dirs[t]]
       /\ call' = [call EXCEPT ![c] =
            [rec EXCEPT !.pc = "dclone", !.ridx = i, !.tmpDir = tmpSeq + 1,
                        !.found = << >>, !.tmps = Append(@, tmpSeq + 1)]]
       /\ UNCHANGED queue

\* The search request ends: the repositories, or an error.
SearchRepos(c) ==
  /\ call[c].pc = "search"
  /\ \/ \E items \in SearchResponses :
          NextRepo(c, [call[c] EXCEPT !.repos = items,
                                      !.trail = Append(@, "search-ok")],
                   FirstUsable(items, 1), tmp)
     \/ /\ Settle(c, Returning([call[c] EXCEPT
                         !.trail = Append(@, "search-failed"),
                         !.warnings = Append(@, "GitHub repo search failed")],
                       FALSE, "No candidates found via GitHub", << >>))
        /\ UNCHANGED << tmp, tmpSeq >>
  /\ UNCHANGED << fs, ver, nfaults, hist, arg, ret >>

Cloned(c, at) ==
  /\ tmp' = [tmp EXCEPT ![call[c].tmpDir] = [@ EXCEPT !.repo = TRUE, !.at = at]]
  /\ call' = [call EXCEPT ![c] = [@ EXCEPT !.pc = "dscan", !.trail = Append(@, "cloned")]]

\* git clone --depth 1 --branch branch cloneUrl repoDir
DiscoverClone(c) ==
  /\ call[c].pc = "dclone"
  /\ LET repo == call[c].repos[call[c].ridx] IN
     \/ /\ ShallowCloneCanSucceed(ItemCloneUrl(repo), ItemBranch(repo))
        /\ Cloned(c, ItemBranch(repo))
        /\ UNCHANGED nfaults
     \/ /\ ~ShallowCloneCanSucceed(ItemCloneUrl(repo), ItemBranch(repo))
        /\ call' = [call EXCEPT ![c].pc = "dfallback"]
        /\ UNCHANGED << tmp, nfaults >>
     \/ /\ ShallowCloneCanSucceed(ItemCloneUrl(repo), ItemBranch(repo))
        /\ nfaults < MaxFaults
        /\ nfaults' = nfaults + 1
        /\ call' = [call EXCEPT ![c] = [@ EXCEPT !.pc = "dfallback", !.faulted = TRUE]]
        /\ UNCHANGED tmp
  /\ UNCHANGED << queue, fs, tmpSeq, ver, hist, arg, ret >>

DiscoverCloneFailed(c) ==
  /\ call' = [call EXCEPT ![c] =
       [@ EXCEPT !.pc = "dcleanup", !.found = << >>,
                 !.trail = Append(@, "clone-failed"),
                 !.warnings = Append(@, "git clone failed")]]
  /\ UNCHANGED tmp

\* The fallback: git clone --depth 1 cloneUrl repoDir
DiscoverFallback(c) ==
  /\ call[c].pc = "dfallback"
  /\ LET repo == call[c].repos[call[c].ridx] IN
     \/ /\ ShallowCloneCanSucceed(ItemCloneUrl(repo), Undefined)
        /\ Cloned(c, Undefined)
        /\ UNCHANGED nfaults
     \/ /\ ~ShallowCloneCanSucceed(ItemCloneUrl(repo), Undefined)
        /\ DiscoverCloneFailed(c)
        /\ UNCHANGED nfaults
     \/ /\ ShallowCloneCanSucceed(ItemCloneUrl(repo), Undefined)
        /\ nfaults < MaxFaults
        /\ nfaults' = nfaults + 1
        /\ DiscoverCloneFailed(c)
  /\ UNCHANGED << queue, fs, tmpSeq, ver, hist, arg, ret >>

\* collectSkillDirs and the loop over the skill directories of the clone;
\* or an exception inside the try block, which the catch clause turns into
\* a warning.
DiscoverScan(c) ==
  /\ call[c].pc = "dscan"
  /\ \/ /\ call' = [call EXCEPT ![c] =
             [@ EXCEPT !.pc = "dcleanup", !.trail = Append(@, "scanned"),
                       !.found = BestOf(call[c].prompt, call[c].repos[call[c].ridx],
                                        DiscoverRepoDirOf(call[c].tmpDir),
                                        discoverCollectSkillDirs(DiscoverRepoDirOf(call[c].tmpDir)),
                                        thresholdGitHub, << >>)]]
        /\ UNCHANGED nfaults
     \/ /\ nfaults < MaxFaults
        /\ nfaults' = nfaults + 1
        /\ call' = [call EXCEPT ![c] =
             [@ EXCEPT !.pc = "dcleanup", !.found = << >>, !.faulted = TRUE,
                       !.trail = Append(@, "threw"),
                       !.warnings = Append(@, "GitHub discovery failed")]]
  /\ UNCHANGED << queue, fs, tmp, tmpSeq, ver, hist, arg, ret >>

\* Variant: the clone directory is left behind.
discoverCleanupKeep(dirs, token) == dirs

\* cleanup of discoverFromGitHub: fs.rm(tmpDir, {recursive, force})
discoverCleanup(dirs, token) == [t \in DOMAIN dirs \ {token} |-> dirs[t]]

\* finally: cleanup(); then the return of the best candidate, or the next
\* repository.
DiscoverCleanup(c) ==
  /\ call[c].pc = "dcleanup"
  /\ IF call[c].found # << >>
     THEN /\ Settle(c, Returning(call[c], TRUE,
                      "Found " \o ToString(Len(call[c].found)) \o " candidate(s) via GitHub",
                      call[c].found))
          /\ tmp' = discoverCleanup(tmp, call[c].tmpDir)
          /\ UNCHANGED tmpSeq
     ELSE NextRepo(c, call[c], FirstUsable(call[c].repos, call[c].ridx + 1),
                   discoverCleanup(tmp, call[c].tmpDir))
  /\ UNCHANGED << fs, ver, nfaults, hist, arg, ret >>

(***************************************************************************)
(* The discovery requests of the model                                     *)
(***************************************************************************)

\* One call at a time: every mode, a prompt that matches, one that does
\* not, a blank one, a mode outside the type, a limit of one.
SoloDiscoverRequests ==
  { DiscoverRequest(p, m, NoNumber) :
      p \in {Q_alpha, Q_zeta}, m \in {Undefined, M_skillPool, M_github} }
  \cup { DiscoverRequest(P_blank, Undefined, NoNumber),
         DiscoverRequest(Q_alpha, M_other, NoNumber),
         DiscoverRequest(Q_alpha, M_skillPool, 1) }

\* Overlapping calls: the same prompt spelled in two ways, two modes.
MixDiscoverRequests ==
  { DiscoverRequest(Q_alpha, M_github, NoNumber),
    DiscoverRequest(Q_alphaSpaced, M_github, NoNumber),
    DiscoverRequest(Q_alpha, Undefined, NoNumber) }

\* Overlapping imports on two roots.
MixImportRequests ==
  { Req(P_one, WsTarget, Undefined, Undefined, TRUE),
    Req(P_one, ManagedTarget, Undefined, Undefined, FALSE) }

(***************************************************************************)
(* Specifications                                                          *)
(***************************************************************************)

Init ==
  /\ call = [c \in Slots |-> IdleCall]
  /\ queue = << >>
  /\ fs = << >>
  /\ tmp = << >>
  /\ tmpSeq = 0
  /\ ver = [d \in {P_one} |-> 0]
  /\ nfaults = 0
  /\ hist = << >>
  /\ arg = << >>
  /\ ret = << >>

\* The client takes the result of a finished call and may call again.
Recycle(c, maxCalls) ==
  /\ call[c].pc = "done"
  /\ Len(hist) + 1 < maxCalls
  /\ hist' = Append(hist, call[c])
  /\ call' = [call EXCEPT ![c] = IdleCall]
  /\ UNCHANGED << queue, fs, tmp, tmpSeq, ver, nfaults, arg, ret >>

\* Spec: overlapping calls on local sources.
Next ==
  \/ \E c \in Slots, r \in ConcRequests : importSkills(c, r)
  \/ \E c \in Slots : ResolveStart(c)
  \/ \E c \in Slots : TryBegin(c)
  \/ \E c \in Slots : EntryCheck(c)
  \/ \E c \in Slots : RemoveDest(c)
  \/ \E c \in Slots : CopySkill(c)
  \/ \E c \in Slots : Cleanup(c)

Spec == Init /\ [][Next]_vars

\* SpecSeq: a client that awaits each call before the next, as the test
\* "skips conflicts unless overwrite is true" does, while the source is edited.
NextSeq ==
  \/ \E r \in SeqRequests : importSkills(1, r)
  \/ ResolveStart(1)
  \/ TryBegin(1)
  \/ EntryCheck(1)
  \/ RemoveDest(1)
  \/ CopySkill(1)
  \/ Cleanup(1)
  \/ Recycle(1, MaxSeqCalls)
  \/ \E d \in DOMAIN ver : EditSource(d)

SpecSeq == Init /\ [][NextSeq]_vars

\* SpecSolo: one call at a time, over every kind of source and failure.
NextSolo ==
  \/ \E r \in SoloRequests : importSkills(1, r)
  \/ ResolveStart(1)
  \/ ShallowClone(1)
  \/ FullClone(1)
  \/ Checkout(1)
  \/ TryBegin(1)
  \/ EntryCheck(1)
  \/ RemoveDest(1)
  \/ CopySkill(1)
  \/ Cleanup(1)
  \/ \E r \in SoloDiscoverRequests : discoverSkills(1, r)
  \/ DiscoverStart(1)
  \/ FetchIndex(1)
  \/ SearchRepos(1)
  \/ DiscoverClone(1)
  \/ DiscoverFallback(1)
  \/ DiscoverScan(1)
  \/ DiscoverCleanup(1)
  \/ Recycle(1, MaxSoloCalls)

SpecSolo == Init /\ [][NextSolo]_vars

\* SpecMix: overlapping imports and discoveries.
NextMix ==
  \/ \E c \in Slots, r \in MixImportRequests : importSkills(c, r)
  \/ \E c \in Slots : ResolveStart(c)
  \/ \E c \in Slots : TryBegin(c)
  \/ \E c \in Slots : EntryCheck(c)
  \/ \E c \in Slots : RemoveDest(c)
  \/ \E c \in Slots : CopySkill(c)
  \/ \E c \in Slots : Cleanup(c)
  \/ \E c \in Slots, r \in MixDiscoverRequests : discoverSkills(c, r)
  \/ \E c \in Slots : DiscoverStart(c)
  \/ \E c \in Slots : FetchIndex(c)
  \/ \E c \in Slots : SearchRepos(c)
  \/ \E c \in Slots : DiscoverClone(c)
  \/ \E c \in Slots : DiscoverFallback(c)
  \/ \E c \in Slots : DiscoverScan(c)
  \/ \E c \in Slots : DiscoverCleanup(c)

SpecMix == Init /\ [][NextMix]_vars

\* Overlapping calls on local and remote sources, one of them with a ref
\* that only the full clone and the checkout reach, one that cannot be
\* cloned.
LiveRequests ==
  { Req(P_one, WsTarget, Undefined, Undefined, TRUE),
    Req(P_one, ManagedSameTarget, Undefined, Undefined, FALSE),
    Req(P_two, ManagedTarget, Undefined, Undefined, FALSE),
    Req(RepoUrl, WsTarget, R_commit, Undefined, TRUE),
    Req(U_dead, WsTarget, Undefined, Undefined, FALSE) }

\* The continuation of call c after the external step it awaits.
ImportStep(c) ==
  \/ ResolveStart(c)
  \/ ShallowClone(c)
  \/ FullClone(c)
  \/ Checkout(c)
  \/ TryBegin(c)
  \/ EntryCheck(c)
  \/ RemoveDest(c)
  \/ CopySkill(c)
  \/ Cleanup(c)

NextLive ==
  \/ \E c \in Slots, r \in LiveRequests : importSkills(c, r)
  \/ \E c \in Slots : ImportStep(c)

SpecLive == Init /\ [][NextLive]_vars

\* Every external step (clone, checkout, readdir, readFile, rm, cp) ends or
\* times out, and the event loop then runs the continuation that awaits
\* it: no step of a call that can be taken is put off for ever.  Clients
\* need not call.  For the start of the task and for the head of the loop
\* weak fairness is written out, []<>~ENABLED <<A>>_vars \/ []<><<A>>_vars,
\* with the states in which the step can be taken spelled out: the task is
\* queued at the head of its key, the call is at the head of the loop.
SpecLiveFair ==
  /\ SpecLive
  /\ \A c \in Slots :
       /\ \/ []<>(~(call[c].pc = "queued" /\ AtHead(queue, call[c].key, c)))
          \/ []<><<ResolveStart(c)>>_vars
       /\ WF_vars(ShallowClone(c))
       /\ WF_vars(FullClone(c))
       /\ WF_vars(Checkout(c))
       /\ WF_vars(TryBegin(c))
       /\ \/ []<>(call[c].pc # "entry")
          \/ []<><<EntryCheck(c)>>_vars
       /\ WF_vars(RemoveDest(c))
       /\ WF_vars(CopySkill(c))
       /\ WF_vars(Cleanup(c))

(***************************************************************************)
(* Functions taken on their own.  Each specification below draws the       *)
(* input of one function at its first state and applies the function step  *)
(* by step; the calls, the queue and the file system stay as constructed.  *)
(***************************************************************************)

progVars == << call, queue, fs, tmp, tmpSeq, ver, nfaults, hist >>

\* The elements of a sequence.
Range(seq) == { seq[i] : i \in DOMAIN seq }

\* The elements of seq that are in S, in the order of seq.
Pick(seq, S) == LET In(x) == x \in S IN SelectSeq(seq, In)


\* No call has been made.
Quiet ==
  /\ call = [c \in Slots |-> IdleCall]
  /\ queue = << >>
  /\ fs = << >>
  /\ tmp = << >>
  /\ tmpSeq = 0
  /\ ver = [d \in {P_one} |-> 0]
  /\ nfaults = 0
  /\ hist = << >>

(***************************************************************************)
(* importSkills: the destination names of one batch                        *)
(***************************************************************************)

MaxBatch == 3

Scanned(skillDir, name) == [skillDir |-> skillDir, name |-> name]

\* Scanned directories and the names their manifests declare (Undefined:
\* none, the directory's base name is used).
NamePool ==
  { Scanned(<< "/", "s", "/", "a", "-", "3" >>, Undefined),
    Scanned(<< "/", "s", "/", "b" >>, << "a" >>),
    Scanned(<< "/", "s", "/", "c" >>, << "a" >>),
    Scanned(<< "/", "s", "/", "d" >>, << "a", " ", "2" >>),
    Scanned(<< "/", "s", "/", "e" >>, << "a", "/", "2" >>),
    Scanned(<< "/", "s", "/", "f" >>, << "!", "!" >>) }

\* What collectSkillDirs can return: distinct paths in ascending order.
InScanOrder(S) ==
  LET paths == SortStrings({ e.skillDir : e \in S })
  IN [i \in 1..Len(paths) |-> CHOOSE e \in S : e.skillDir = paths[i]]

Batches == { InScanOrder(S) : S \in { T \in SUBSET NamePool : Cardinality(T) <= MaxBatch } }

InitNames ==
  /\ Quiet
  /\ arg \in Batches
  /\ ret = [idx |-> 1, usedDestNames |-> {}, dirNames |-> << >>]

\* One turn of the loop, as far as the names go: dirNameBase, dirName,
\* usedDestNames.add(dirName).
AssignDestName ==
  /\ ret.idx <= Len(arg)
  /\ LET dirName == DestName(ret.usedDestNames, arg[ret.idx].name, arg[ret.idx].skillDir)
     IN ret' = [idx |-> ret.idx + 1,
                usedDestNames |-> ret.usedDestNames \cup {dirName},
                dirNames |-> Append(ret.dirNames, dirName)]
  /\ UNCHANGED << progVars, arg >>

NextNames == AssignDestName

SpecNames == InitNames /\ [][NextNames]_vars

(***************************************************************************)
(* resolveSource: the clone it asks for and the scan root it returns       *)
(***************************************************************************)

S_owner == << "o" >>

S_slashTree == << "/", "t", "r", "e", "e", "/" >>

R_slashed == << "f", "/", "x" >>

D_kzz == << "k", "/", "z", "z" >>

\* https://github.com/<owner>/<repo>
RepoPage(owner, repo) == S_https \o S_githubHost \o << "/" >> \o owner \o << "/" >> \o repo

\* https://github.com/<owner>/<repo>/tree/<ref>[/<subdir>]
TreeUrl(owner, repo, ref, subdir) ==
  RepoPage(owner, repo) \o S_slashTree \o PathJoin(ref, IF subdir = Undefined THEN << >> ELSE subdir)

\* A request to resolve, with the ref and the subdirectory its source URL
\* was built with (Undefined: the URL has none).
Given(source, urlRef, urlSubdir, ref, subdir) ==
  [params |-> Req(source, WsTarget, ref, subdir, FALSE), urlRef |-> urlRef, urlSubdir |-> urlSubdir]

\* A tree URL, and the clone URL of the same repository with the ref and
\* the subdirectory as parameters.
Twins ==
  { << Given(TreeUrl(S_owner, repo, ref, subdir), ref, subdir, Undefined, Undefined),
       Given(IF dotGit THEN GitHubRepoUrl(S_owner, repo) ELSE RepoPage(S_owner, repo),
             Undefined, Undefined, ref, subdir) >> :
      repo \in {<< "r" >>, << "q" >>}, ref \in {R_branch, R_slashed}, subdir \in {D_k, D_kzz},
      dotGit \in BOOLEAN }

\* Single requests: every kind of source with every kind of explicit ref
\* and subdir (absent, empty, present).
Singles ==
  { << Given(TreeUrl(S_owner, << "r" >>, R_branch, urlSubdir), R_branch, urlSubdir, ref, subdir) >> :
      urlSubdir \in {Undefined, D_k},
      ref \in {Undefined, << >>, R_branch, R_commit},
      subdir \in {Undefined, << >>, D_k, D_zz} }
  \cup
  { << Given(source, Undefined, Undefined, ref, subdir) >> :
      source \in {RepoPage(S_owner, << "r" >>), GitHubRepoUrl(S_owner, << "r" >>), RepoUrl, P_one},
      ref \in {Undefined, << >>, R_branch, R_commit},
      subdir \in {Undefined, << >>, D_k, D_zz} }

\* resolveSource as far as the clone command and the returned root: the
\* normalized values, the arguments of the first clone, the scan root.
resolveSource(params) ==
  LET r == resolveSourceLocal(params)
  IN [kind |-> r.kind, warnings |-> r.warnings,
      clone |-> shallowCloneArgs(r.ref, r.gitUrl),
      subdir |-> r.subdir,
      rootDir |-> IF r.kind = "git" THEN rootOfClone(RepoDirOf(1), r.subdir) ELSE r.rootDir]

InitResolve ==
  /\ Quiet
  /\ arg \in Twins \cup Singles
  /\ ret = << >>

ResolveNext ==
  /\ Len(ret) < Len(arg)
  /\ ret' = Append(ret, resolveSource(arg[Len(ret) + 1].params))
  /\ UNCHANGED << progVars, arg >>

NextResolve == ResolveNext

SpecResolve == InitResolve /\ [][NextResolve]_vars

(***************************************************************************)
(* collectSkillDirs (skills-import.ts and skills-discover.ts), call by     *)
(* call of its walk, over a tree of directories                            *)
(***************************************************************************)

\* A directory entry of the tree: a directory (readable or not) or a
\* symbolic link to a directory, and whether it directly holds a file
\* SKILL.md.
Node(kind, readable, manifest) == [kind |-> kind, readable |-> readable, manifest |-> manifest]

T_root == << "/", "r" >>

T_a == << "/", "r", "/", "a" >>

T_ab == << "/", "r", "/", "a", "/", "b" >>

T_build == << "/", "r", "/", "a", "/", "b", "u", "i", "l", "d" >>

T_buildX == << "/", "r", "/", "a", "/", "b", "u", "i", "l", "d", "/", "x" >>

T_link == << "/", "r", "/", "a", "/", "l", "n", "k" >>

T_mods == << "/", "r", "/", "n", "o", "d", "e", "_", "m", "o", "d", "u", "l", "e", "s" >>

T_modsP == << "/", "r", "/", "n", "o", "d", "e", "_", "m", "o", "d", "u", "l", "e", "s", "/", "p" >>

T_modsPQ == << "/", "r", "/", "n", "o", "d", "e", "_", "m", "o", "d", "u", "l", "e", "s", "/", "p", "/", "q" >>

T_unreadable == << "/", "r", "/", "u" >>

T_missing == << "/", "r", "/", "z", "z" >>

\* /r/c, /r/c/c, ...: the directory n levels below /r on the chain.
RECURSIVE Chain(_)
Chain(n) == IF n = 0 THEN T_root ELSE PathJoin(Chain(n - 1), << "c" >>)

\* The chain goes two levels below the depth the walk stops at.
ChainDepth == MaxWalkDepth + 2

\* The trees of the model: the same directories, with SKILL.md present or
\* not in the root, in /r/a, in /r/a/b and in the chain at depths 12 and 13.
ScanTree(inRoot, inA, inAB, in12, in13) ==
  [p \in {T_root, T_a, T_ab, T_build, T_buildX, T_link, T_mods, T_modsP, T_modsPQ, T_unreadable}
           \cup {Chain(n) : n \in 1..ChainDepth} |->
     CASE p = T_root -> Node("dir", TRUE, inRoot)
       [] p = T_a -> Node("dir", TRUE, inA)
       [] p = T_ab -> Node("dir", TRUE, inAB)
       [] p = T_buildX -> Node("dir", TRUE, TRUE)
       [] p = T_link -> Node("link", TRUE, TRUE)
       [] p = T_modsP -> Node("dir", TRUE, TRUE)
       [] p = T_modsPQ -> Node("dir", TRUE, TRUE)
       [] p = T_unreadable -> Node("dir", FALSE, TRUE)
       [] p = Chain(MaxWalkDepth) -> Node("dir", TRUE, in12)
       [] p = Chain(MaxWalkDepth + 1) -> Node("dir", TRUE, in13)
       [] OTHER -> Node("dir", TRUE, FALSE)]

ScanInputs ==
  { [by |-> by, rootDir |-> T_root, tree |-> ScanTree(inRoot, inA, inAB, in12, in13)] :
      by \in {"import", "discover"}, inRoot \in BOOLEAN, inA \in BOOLEAN,
      inAB \in BOOLEAN, in12 \in BOOLEAN, in13 \in BOOLEAN }
  \cup
  { [by |-> by, rootDir |-> rootDir, tree |-> ScanTree(FALSE, TRUE, TRUE, TRUE, TRUE)] :
      by \in {"import", "discover"}, rootDir \in {T_build, T_unreadable, T_missing, T_link} }

\* The ignore list of the scanner at hand.
IgnoredNames(by) ==
  IF by = "import" THEN IMPORT_IGNORED_NAMES ELSE DISCOVERY_IGNORED_NAMES

\* A pending call walk(dir, depth).
Frame(dir, depth) == [dir |-> dir, depth |-> depth]

\* fs.readdir(dir) succeeds: dir exists (a directory, or a link to one) and
\* can be read.
Readable(tree, dir) == dir \in DOMAIN tree /\ tree[dir].readable

\* The entries of dir for which entry.isDirectory() holds, by name.
Subdirs(tree, dir) ==
  SortStrings({ p \in DOMAIN tree : ChildOf(p, dir) /\ tree[p].kind = "dir" })

\* Variant: the walk has no depth limit.
TooDeepNever(depth) == FALSE

\* depth > 12
TooDeep(depth) == depth > MaxWalkDepth

\* Variant: no name is skipped.
SkipEntryNever(name, ignored) == FALSE

\* IGNORED_NAMES.has(entry.name)
SkipEntry(name, ignored) == name \in ignored

\* The recursive calls of the second loop of walk, in order.
Descents(tree, dir, depth, ignored) ==
  LET subs == Subdirs(tree, dir)
      kept == Pick(subs, { p \in Range(subs) : ~SkipEntry(Basename(p), ignored) })
  IN [i \in 1..Len(kept) |-> Frame(kept[i], depth + 1)]

InitScan ==
  /\ Quiet
  /\ arg \in ScanInputs
  /\ ret = [stack |-> << Frame(arg.rootDir, 0) >>, found |-> {}, visited |-> {},
            done |-> FALSE, result |-> << >>]

\* walk(dir, depth) with depth > 12: return.
WalkTooDeep ==
  /\ ~ret.done /\ ret.stack # << >>
  /\ TooDeep(Head(ret.stack).depth)
  /\ ret' = [ret EXCEPT !.stack = Tail(@)]
  /\ UNCHANGED << progVars, arg >>

\* walk(dir, depth) whose readdir throws: return.
WalkUnreadable ==
  /\ ~ret.done /\ ret.stack # << >>
  /\ ~TooDeep(Head(ret.stack).depth)
  /\ ~Readable(arg.tree, Head(ret.stack).dir)
  /\ ret' = [ret EXCEPT !.stack = Tail(@), !.visited = @ \cup {Head(ret.stack).dir}]
  /\ UNCHANGED << progVars, arg >>

\* walk(dir, depth): readdir, found.add(dir) if SKILL.md is a file of dir,
\* then walk every subdirectory whose name is not ignored.
WalkDir ==
  /\ ~ret.done /\ ret.stack # << >>
  /\ ~TooDeep(Head(ret.stack).depth)
  /\ Readable(arg.tree, Head(ret.stack).dir)
  /\ LET top == Head(ret.stack) IN
       ret' = [ret EXCEPT
                 !.stack = Descents(arg.tree, top.dir, top.depth, IgnoredNames(arg.by)) \o Tail(@),
                 !.found = IF arg.tree[top.dir].manifest THEN @ \cup {top.dir} ELSE @,
                 !.visited = @ \cup {top.dir}]
  /\ UNCHANGED << progVars, arg >>

\* return [...found].toSorted()
ScanReturn ==
  /\ ~ret.done /\ ret.stack = << >>
  /\ ret' = [ret EXCEPT !.done = TRUE, !.result = SortStrings(ret.found)]
  /\ UNCHANGED << progVars, arg >>

NextScan == WalkTooDeep \/ WalkUnreadable \/ WalkDir \/ ScanReturn

SpecScan == InitScan /\ [][NextScan]_vars

\* The scanner is run to its end: no step that can be taken is put off for
\* ever.
SpecScanFair == SpecScan /\ WF_vars(NextScan)


(***************************************************************************)
(* scoreSkillMatch on its own: a prompt and a pool of two candidates are   *)
(* drawn, and the two are scored one after the other.                      *)
(***************************************************************************)

Q_pdf == << "p", "d", "f" >>

Q_stopword == << "t", "h", "e" >>

Q_wordy == << "h", "e", "l", "p", " ", "w", "i", "t", "h", " ", "t", "h", "e", " ", "p", "d", "f" >>

Q_two == << "p", "d", "f", " ", "m", "e", "r", "g", "e" >>

Q_upper == << " ", " ", "p", "D", "f", "-" >>

ScorePrompts == { << >>, Q_stopword, Q_pdf, Q_wordy, Q_two, Q_upper }

\* A candidate as the parameters of scoreSkillMatch: name and description
\* may be undefined; keywords are a list when hasKeywords, else undefined.
Scorable(name, description, hasKeywords, keywords) ==
  [name |-> name, description |-> description,
   hasKeywords |-> hasKeywords, keywords |-> keywords]

ScoreNames ==
  { Undefined, << >>, Q_pdf, << "d" >>, Q_wordy, << "p", "d", "f", "-", "m", "e", "r", "g", "e" >>, << "z", "i", "p" >> }

ScoreDescriptions == { Undefined, << >>, << "m", "e", "r", "g", "e", " ", "a", " ", "p", "d", "f" >> }

ScoreCandidates ==
  { Scorable(n, d, k[1], k[2]) :
      n \in ScoreNames, d \in ScoreDescriptions,
      k \in { << FALSE, << >> >>, << TRUE, << >> >>,
              << TRUE, << Q_pdf, << "z", "i", "p", " ", "m", "e", "r", "g", "e" >> >> >> } }

\* params.keywords ?? []
KeywordsOf(cand) == IF cand.hasKeywords THEN cand.keywords ELSE << >>

InitScore ==
  /\ Quiet
  /\ arg \in { [prompt |-> p, pool |-> << a, b >>] :
                 p \in ScorePrompts, a \in ScoreCandidates, b \in ScoreCandidates }
  /\ ret = << >>

\* The candidate scored next.
NextScored == arg.pool[Len(ret) + 1]

\* queryTokens.size === 0: return 0.
ScoreNoTokens ==
  /\ Len(ret) < Len(arg.pool)
  /\ pickQueryTokens(arg.prompt, MaxQueryTokens) = << >>
  /\ ret' = Append(ret, scoreSkillMatch(arg.prompt, NextScored.name,
                                        NextScored.description,
                                        KeywordsOf(NextScored)))
  /\ UNCHANGED << progVars, arg >>

ScoreTokens ==
  /\ Len(ret) < Len(arg.pool)
  /\ pickQueryTokens(arg.prompt, MaxQueryTokens) # << >>
  /\ ret' = Append(ret, scoreSkillMatch(arg.prompt, NextScored.name,
                                        NextScored.description,
                                        KeywordsOf(NextScored)))
  /\ UNCHANGED << progVars, arg >>

NextScore == ScoreNoTokens \/ ScoreTokens

SpecScore == InitScore /\ [][NextScore]_vars


(***************************************************************************)
(* rankSkillPoolIndex on its own: a prompt, an index of up to MaxIndexLen  *)
(* entries, a limit and a threshold are drawn.                             *)
(***************************************************************************)

MaxIndexLen == 3

U_alpha == << "h", "t", "t", "p", ":", "/", "/", "h", "/", "a", "l", "p", "h", "a" >>

U_kit == << "h", "t", "t", "p", ":", "/", "/", "h", "/", "k", "i", "t" >>

U_low == << "h", "t", "t", "p", ":", "/", "/", "h", "/", "l", "o", "w" >>

U_zip == << " ", "h", "t", "t", "p", ":", "/", "/", "h", "/", "z", "i", "p", " " >>

RankEntries ==
  { IndexEntry(N_alphaKit, Undefined, U_kit, << Q_alpha >>),
    IndexEntry(Q_alpha, Undefined, U_alpha, << >>),
    IndexEntry(Q_alpha, Q_alpha, P_blank, << Q_alpha >>),
    IndexEntry(Q_alpha, Q_alpha, Undefined, << Q_alpha >>),
    IndexEntry(N_alphaKitXY, Undefined, U_low, << >>),
    IndexEntry(<< "z", "i", "p" >>, Q_zeta, U_zip, << >>) }

RECURSIVE SeqsUpTo(_, _)
SeqsUpTo(S, n) ==
  IF n = 0 THEN { << >> }
  ELSE SeqsUpTo(S, n - 1)
         \cup { Append(s, x) : s \in { t \in SeqsUpTo(S, n - 1) : Len(t) = n - 1 }, x \in S }

RankInputs ==
  { [prompt |-> p, index |-> [isArray |-> a, skills |-> s], limit |-> l, threshold |-> t] :
      p \in {Q_alpha, Q_zeta}, a \in BOOLEAN, s \in SeqsUpTo(RankEntries, MaxIndexLen),
      l \in {0, 1, 2}, t \in {thresholdSkillPool, ZeroScore} }

InitRank ==
  /\ Quiet
  /\ arg \in RankInputs
  /\ ret = [done |-> FALSE, ranked |-> << >>]

\* Array.isArray(params.index.skills) is false: no entries.
RankNoList ==
  /\ ~ret.done
  /\ ~arg.index.isArray
  /\ ret' = [done |-> TRUE,
             ranked |-> rankSkillPoolIndex(arg.prompt, arg.index, arg.limit, arg.threshold)]
  /\ UNCHANGED << progVars, arg >>

RankList ==
  /\ ~ret.done
  /\ arg.index.isArray
  /\ ret' = [done |-> TRUE,
             ranked |-> rankSkillPoolIndex(arg.prompt, arg.index, arg.limit, arg.threshold)]
  /\ UNCHANGED << progVars, arg >>

NextRank == RankNoList \/ RankList

SpecRank == InitRank /\ [][NextRank]_vars


(***************************************************************************)
(* skills-validate.ts.  The host (its skill loader, its eligibility        *)
(* report, the files it can read, the pi loader) is the environment: a    *)
(* list of facts, one record per skill.  A path is the list of its        *)
(* segments.                                                               *)
(***************************************************************************)

\* path.resolve of an absolute path: "." and empty segments go, ".." takes
\* the segment before it.
RECURSIVE ResolveSegments(_, _)
ResolveSegments(segs, acc) ==
  IF segs = << >> THEN acc
  ELSE IF Head(segs) \in {".", ""} THEN ResolveSegments(Tail(segs), acc)
  ELSE IF Head(segs) = ".."
  THEN ResolveSegments(Tail(segs), SubSeq(acc, 1, Len(acc) - 1))
  ELSE ResolveSegments(Tail(segs), Append(acc, Head(segs)))

normalizePath(p) == ResolveSegments(p, << >>)

\* status.missing of a SkillStatusEntry.
Missing(bins, anyBins, env, config, os) ==
  [bins |-> bins, anyBins |-> anyBins, env |-> env, config |-> config, os |-> os]

NothingMissing == Missing(<< >>, << >>, << >>, << >>, << >>)

\* A SkillStatusEntry of the eligibility report (present: FALSE stands for
\* the undefined of the source).
SkillStatusEntry(name, filePath, eligible, missing, install) ==
  [present |-> TRUE, name |-> name, filePath |-> filePath, eligible |-> eligible,
   missing |-> missing, install |-> install]

NoStatus ==
  [present |-> FALSE, name |-> "", filePath |-> << >>, eligible |-> FALSE,
   missing |-> NothingMissing, install |-> << >>]

\* A SkillEntry of the host's loader.
SkillEntry(name, filePath, source) ==
  [present |-> TRUE, name |-> name, filePath |-> filePath, source |-> source]

NoSkillEntry == [present |-> FALSE, name |-> "", filePath |-> << >>, source |-> ""]

\* The result of inspectOpenClawMetadata.
MetadataInspection(present, parseOk, manifestFound) ==
  [present |-> present, parseOk |-> parseOk, manifestFound |-> manifestFound]

\* What the host knows of one skill: its SKILL.md and whether it can be
\* read, whether the loader lists it, its entry of the report, whether it
\* is blocked by policy, its frontmatter metadata, the name the pi loader
\* gives it and the messages the pi loader attaches to it.
HostSkill(filePath, readable, listed, name, status, blocked, meta, piName, diagnostics) ==
  [filePath |-> filePath, readable |-> readable, listed |-> listed, name |-> name,
   status |-> status, blocked |-> blocked, meta |-> meta, piName |-> piName,
   diagnostics |-> diagnostics]

\* loadWorkspaceSkillEntries: the skills the loader lists, in its order.
loadWorkspaceSkillEntries(host) ==
  LET Listed(h) == h.listed
      listed == SelectSeq(host, Listed)
  IN [i \in DOMAIN listed |->
        SkillEntry(listed[i].name, listed[i].filePath, "openclaw-workspace")]

\* buildWorkspaceSkillStatus: the entries of the report.
buildWorkspaceSkillStatus(host) ==
  LET Reported(h) == h.status.present
      reported == SelectSeq(host, Reported)
  IN [i \in DOMAIN reported |-> reported[i].status]

\* The facts of the skill whose SKILL.md is at skillPath, if the host has
\* any.
HostFactsAt(host, skillPath) ==
  LET At(h) == normalizePath(h.filePath) = skillPath
  IN SelectSeq(host, At)

\* fs.readFile(skillPath) succeeds.
ReadFileOk(host, skillPath) ==
  HostFactsAt(host, skillPath) # << >> /\ HostFactsAt(host, skillPath)[1].readable

\* entries.find((entry) => normalizePath(entry.skill.filePath) === target)
findSkillEntryByPath(entries, skillPath) ==
  LET At(e) == normalizePath(e.filePath) = normalizePath(skillPath)
  IN IF SelectSeq(entries, At) = << >> THEN NoSkillEntry ELSE SelectSeq(entries, At)[1]

findSkillStatusByPath(report, skillPath) ==
  LET At(e) == normalizePath(e.filePath) = normalizePath(skillPath)
  IN IF SelectSeq(report, At) = << >> THEN NoStatus ELSE SelectSeq(report, At)[1]

\* The first loaded skill of the same name at another path.
findAnyNameCollision(entries, importedPath, skillName) ==
  LET Other(e) == e.name = skillName /\ normalizePath(e.filePath) # normalizePath(importedPath)
  IN IF skillName = "" \/ SelectSeq(entries, Other) = << >>
     THEN NoSkillEntry ELSE SelectSeq(entries, Other)[1]

R_notLoaded ==
  "Skill not loaded by OpenClaw (likely missing description or invalid frontmatter)."

R_collision == "Skill name collides with another loaded skill"

R_invalidJson5 == "Invalid JSON5 in frontmatter metadata"

R_noManifestKey ==
  "Frontmatter metadata is present but does not include an OpenClaw manifest key."

R_specWarning == "Agent Skills spec warning"

R_noInstaller ==
  "Missing required binaries but no installer is declared in OpenClaw metadata."

R_readFailed == "Failed to read SKILL.md."

\* The messages of the pi loader that match the pattern of
\* shouldRecommendRewrite, among those the model's loader gives.
InterestingDiagnostics ==
  { "description is required", "failed to parse", "unknown frontmatter field: a",
    "unknown frontmatter field: b", "unknown frontmatter field: c",
    "name contains invalid characters", "name does not match parent directory" }

\* Variant: every distinct matching message becomes a reason.
SpecWarningsUncut(diagnostics) ==
  LET Interesting(m) == m \in InterestingDiagnostics
      unique == Dedup(SelectSeq(diagnostics, Interesting), {})
  IN [i \in DOMAIN unique |-> R_specWarning \o ": " \o unique[i]]

\* The reasons made of the loader's messages: the distinct matching ones,
\* the first five of them.
SpecWarnings(diagnostics) ==
  LET Interesting(m) == m \in InterestingDiagnostics
      unique == Dedup(SelectSeq(diagnostics, Interesting), {})
      kept == SubSeq(unique, 1, IF Len(unique) < 5 THEN Len(unique) ELSE 5)
  IN [i \in DOMAIN kept |-> R_specWarning \o ": " \o kept[i]]

\* status.missing.bins.length > 0 || status.missing.anyBins.length > 0
MissingBins(status) == status.missing.bins # << >> \/ status.missing.anyBins # << >>

\* Variant: only the bins list counts as missing binaries.
NoInstallerReasonBinsOnly(status) ==
  IF status.present /\ ~status.eligible /\ status.missing.bins # << >> /\ status.install = << >>
  THEN << R_noInstaller >> ELSE << >>

\* The reason for a skill that is not eligible for want of binaries that
\* nothing declared can install.
NoInstallerReason(status) ==
  IF status.present /\ ~status.eligible /\ MissingBins(status) /\ status.install = << >>
  THEN << R_noInstaller >> ELSE << >>

shouldRecommendRewrite(loaded, diagnostics, metadataInspection, status, collision) ==
  LET reasons ==
        (IF ~loaded THEN << R_notLoaded >> ELSE << >>)
        \o (IF collision.present THEN << R_collision >> ELSE << >>)
        \o (IF metadataInspection.present /\ ~metadataInspection.parseOk
            THEN << R_invalidJson5 >> ELSE << >>)
        \o (IF /\ metadataInspection.present /\ metadataInspection.parseOk
               /\ ~metadataInspection.manifestFound
            THEN << R_noManifestKey >> ELSE << >>)
        \o SpecWarnings(diagnostics)
        \o NoInstallerReason(status)
  IN [recommended |-> Dedup(reasons, {}) # << >>, reasons |-> Dedup(reasons, {})]

\* A SkillsImportEntry.
ImportedEntry(name, destDir, skillPath) ==
  [name |-> name, destDir |-> destDir, skillPath |-> skillPath]

\* Variant: a skill the loader lists is ready.
ReadyIfLoaded(loaded, status) == loaded

\* Boolean(loaded && status?.eligible)
Ready(loaded, status) == loaded /\ status.present /\ status.eligible

\* One turn of the loop of validateImportedSkills: the SkillValidationEntry
\* of an imported entry, given the entries and the report built before the
\* loop.
ValidationOf(host, entries, report, imported) ==
  IF ~ReadFileOk(host, normalizePath(imported.skillPath))
  THEN [destDir |-> imported.destDir, skillPath |-> imported.skillPath,
        loaded |-> FALSE, diagnostics |-> << "Failed to read SKILL.md" >>,
        metadata |-> MetadataInspection(FALSE, TRUE, FALSE),
        status |-> NoStatus, ready |-> FALSE,
        rewriteRecommended |-> TRUE, rewriteReasons |-> << R_readFailed >>]
  ELSE LET skillPath == normalizePath(imported.skillPath)
           facts == HostFactsAt(host, skillPath)[1]
           entry == findSkillEntryByPath(entries, skillPath)
           status == findSkillStatusByPath(report, skillPath)
           loadedName == IF facts.piName # "" THEN facts.piName ELSE entry.name
           collision == IF ~entry.present /\ loadedName # ""
                        THEN findAnyNameCollision(entries, skillPath, loadedName)
                        ELSE NoSkillEntry
           rewrite == shouldRecommendRewrite(entry.present, facts.diagnostics,
                                             facts.meta, status, collision)
       IN [destDir |-> imported.destDir, skillPath |-> imported.skillPath,
           loaded |-> entry.present, diagnostics |-> facts.diagnostics,
           metadata |-> facts.meta, status |-> status,
           ready |-> Ready(entry.present, status),
           rewriteRecommended |-> rewrite.recommended,
           rewriteReasons |-> rewrite.reasons]

\* Variant: ok whenever no entry is left that is not ready.
ReportOkVacuous(total, readyCount) == readyCount = total

\* total > 0 && readyCount === total
ReportOk(total, readyCount) == total > 0 /\ readyCount = total

\* Variant: the report lists and counts only the entries that are loaded.
ReportOfLoadedOnly(validations) ==
  LET IsLoaded(v) == v.loaded
      IsReady(v) == v.ready
      Rewrite(v) == v.rewriteRecommended
      kept == SelectSeq(validations, IsLoaded)
  IN [ok |-> ReportOk(Len(kept), Len(SelectSeq(kept, IsReady))),
      summary |-> [total |-> Len(kept),
                   loaded |-> Len(kept),
                   ready |-> Len(SelectSeq(kept, IsReady)),
                   rewriteRecommended |-> Len(SelectSeq(kept, Rewrite))],
      skills |-> kept]

\* The report of a list of SkillValidationEntry.
ReportOf(validations) ==
  LET IsLoaded(v) == v.loaded
      IsReady(v) == v.ready
      Rewrite(v) == v.rewriteRecommended
  IN [ok |-> ReportOk(Len(validations), Len(SelectSeq(validations, IsReady))),
      summary |-> [total |-> Len(validations),
                   loaded |-> Len(SelectSeq(validations, IsLoaded)),
                   ready |-> Len(SelectSeq(validations, IsReady)),
                   rewriteRecommended |-> Len(SelectSeq(validations, Rewrite))],
      skills |-> validations]

validateImportedSkills(host, imported) ==
  ReportOf([i \in DOMAIN imported |->
              ValidationOf(host, loadWorkspaceSkillEntries(host),
                           buildWorkspaceSkillStatus(host), imported[i])])

(***************************************************************************)
(* The hosts and the imported batches of the model                         *)
(***************************************************************************)

SkillKeys == {"a", "b"}

\* The SKILL.md of an imported skill, as importSkills spells it, and as the
\* host spells it (skill b with a "." segment).
SkillPathOf(k) == << "w", "skills", k, "SKILL.md" >>

HostPathOf(k) ==
  IF k = "b" THEN << "w", "skills", ".", "b", "SKILL.md" >> ELSE SkillPathOf(k)

InstallOption(id) == [id |-> id]

\* The eligibility statuses the host can report for a skill.
StatusKinds ==
  { "eligible", "blocked", "bins", "anyBins", "bins+installer", "anyBins+installer",
    "bins+env+installer", "bins+config+installer", "bins+os+installer",
    "env+installer", "bins+unnamed-installer" }

StatusOf(k, kind) ==
  LET bins == IF kind \in {"bins", "bins+installer", "bins+env+installer",
                           "bins+config+installer", "bins+os+installer",
                           "bins+unnamed-installer"}
              THEN << "jq" >> ELSE << >>
      anyBins == IF kind \in {"anyBins", "anyBins+installer"} THEN << "rg", "ag" >> ELSE << >>
      env == IF kind \in {"bins+env+installer", "env+installer"} THEN << "API_KEY" >> ELSE << >>
      config == IF kind = "bins+config+installer" THEN << "browser.enabled" >> ELSE << >>
      os == IF kind = "bins+os+installer" THEN << "darwin" >> ELSE << >>
      install == IF kind \in {"eligible", "bins", "anyBins"} THEN << >>
                 ELSE IF kind = "bins+unnamed-installer"
                 THEN << InstallOption(""), InstallOption("npm-1") >>
                 ELSE << InstallOption("brew-0"), InstallOption("npm-1") >>
  IN SkillStatusEntry(k, HostPathOf(k), kind = "eligible",
                      Missing(bins, anyBins, env, config, os), install)

M_none == MetadataInspection(FALSE, TRUE, FALSE)

M_manifest == MetadataInspection(TRUE, TRUE, TRUE)

\* A skill that the loader lists and the report covers.
ListedSkill(k, kind) ==
  HostSkill(HostPathOf(k), TRUE, TRUE, k, StatusOf(k, kind), kind = "blocked",
            M_manifest, k, << >>)

\* The other states of a skill: its SKILL.md cannot be read; the loader
\* rejects it; the loader rejects it under the name of the other skill; it
\* is listed but the report has no entry for it; the report has an entry
\* but the loader does not list it; its metadata is no JSON5; its metadata
\* has no manifest key; the pi loader has eight messages about it.
OddSkills(k) ==
  { HostSkill(HostPathOf(k), FALSE, TRUE, k, StatusOf(k, "eligible"), FALSE, M_none, k, << >>),
    HostSkill(HostPathOf(k), TRUE, FALSE, k, NoStatus, FALSE, M_none, "",
              << "description is required", "unrelated" >>),
    HostSkill(HostPathOf(k), TRUE, FALSE, k, NoStatus, FALSE, M_none,
              CHOOSE o \in SkillKeys : o # k, << >>),
    HostSkill(HostPathOf(k), TRUE, TRUE, k, NoStatus, FALSE, M_none, k, << >>),
    HostSkill(HostPathOf(k), TRUE, FALSE, k, StatusOf(k, "eligible"), FALSE, M_none, k, << >>),
    HostSkill(HostPathOf(k), TRUE, TRUE, k, StatusOf(k, "eligible"), FALSE,
              MetadataInspection(TRUE, FALSE, FALSE), k, << >>),
    HostSkill(HostPathOf(k), TRUE, TRUE, k, StatusOf(k, "eligible"), FALSE,
              MetadataInspection(TRUE, TRUE, FALSE), k, << >>),
    HostSkill(HostPathOf(k), TRUE, TRUE, k, StatusOf(k, "eligible"), FALSE, M_manifest, k,
              << "unknown frontmatter field: a", "unrelated",
                 "unknown frontmatter field: b", "unknown frontmatter field: a",
                 "unknown frontmatter field: c", "name contains invalid characters",
                 "name does not match parent directory", "failed to parse" >>) }

HostSkills(k) == { ListedSkill(k, kind) : kind \in StatusKinds } \cup OddSkills(k)

Hosts == { << a, b >> : a \in HostSkills("a"), b \in HostSkills("b") }

ImportedOf(k) == ImportedEntry(k, << "w", "skills", k >>, SkillPathOf(k))

Batches2 ==
  { << >>, << ImportedOf("a") >>, << ImportedOf("a"), ImportedOf("b") >>,
    << ImportedOf("b"), ImportedOf("a") >> }

(***************************************************************************)
(* validateImportedSkills on its own, one turn of its loop at a time       *)
(***************************************************************************)

InitValidate ==
  /\ Quiet
  /\ arg \in { [host |-> h, imported |-> b] : h \in Hosts, b \in Batches2 }
  /\ ret = [pc |-> "begin", entries |-> << >>, report |-> << >>, built |-> 0,
            validations |-> << >>, out |-> ReportOf(<< >>)]

\* loadWorkspaceSkillEntries and buildWorkspaceSkillStatus, before the loop.
ValidateBegin ==
  /\ ret.pc = "begin"
  /\ ret' = [ret EXCEPT !.pc = "loop",
                        !.entries = loadWorkspaceSkillEntries(arg.host),
                        !.report = buildWorkspaceSkillStatus(arg.host),
                        !.built = @ + 1]
  /\ UNCHANGED << progVars, arg >>

\* The imported entry of the next turn.
ValidateImported == arg.imported[Len(ret.validations) + 1]

\* fs.readFile throws: the entry is pushed as unread.
ValidateUnread ==
  /\ ret.pc = "loop" /\ Len(ret.validations) < Len(arg.imported)
  /\ ~ReadFileOk(arg.host, normalizePath(ValidateImported.skillPath))
  /\ ret' = [ret EXCEPT !.validations =
               Append(@, ValidationOf(arg.host, ret.entries, ret.report, ValidateImported))]
  /\ UNCHANGED << progVars, arg >>

ValidateEntry ==
  /\ ret.pc = "loop" /\ Len(ret.validations) < Len(arg.imported)
  /\ ReadFileOk(arg.host, normalizePath(ValidateImported.skillPath))
  /\ ret' = [ret EXCEPT !.validations =
               Append(@, ValidationOf(arg.host, ret.entries, ret.report, ValidateImported))]
  /\ UNCHANGED << progVars, arg >>

ValidateReturn ==
  /\ ret.pc = "loop" /\ Len(ret.validations) = Len(arg.imported)
  /\ ret' = [ret EXCEPT !.pc = "done", !.out = ReportOf(ret.validations)]
  /\ UNCHANGED << progVars, arg >>

NextValidate == ValidateBegin \/ ValidateUnread \/ ValidateEntry \/ ValidateReturn

SpecValidate == InitValidate /\ [][NextValidate]_vars


(***************************************************************************)
(* gateway/server-methods/skills.ts: the handlers skills.import,           *)
(* skills.add, skills.install and skills.update, one step per await.       *)
(* discoverSkills, importSkills, installSkill and writeConfigFile are the  *)
(* callees: what they return is drawn when they return.                    *)
(***************************************************************************)

GatewayMethods == { "skills.import", "skills.add", "skills.install", "skills.update" }

\* What discoverSkills can return: ok with candidates, or not ok with none.
DiscoveryCandidates == << [source |-> "repo-1"], [source |-> "repo-2"] >>

Discoveries ==
  { [ok |-> TRUE, candidates |-> DiscoveryCandidates],
    [ok |-> TRUE, candidates |-> << DiscoveryCandidates[2] >>],
    [ok |-> FALSE, candidates |-> << >> ] }

NoDiscovery == [ok |-> FALSE, candidates |-> << >>]

\* The autoInstall parameter: absent, false or true.
AutoInstallValues == { "absent", "false", "true" }

\* A request: the method, whether its parameters pass the validator, its
\* parameters, and the callees' side: the host at the time of the call,
\* the entries importSkills imports when it returns ok, and what
\* discoverSkills returns.
GatewayRequest(method, paramsOk, autoInstall, host, batch, discovered) ==
  [method |-> method, paramsOk |-> paramsOk, autoInstall |-> autoInstall,
   host |-> host, batch |-> batch, discovered |-> discovered]

NonEmptyBatches == Batches2 \ { << >> }

GatewayHost == CHOOSE h \in Hosts : TRUE

GatewayRequests ==
  { GatewayRequest("skills.import", TRUE, a, h, b, NoDiscovery) :
      a \in AutoInstallValues, h \in Hosts, b \in NonEmptyBatches }
  \cup
  { GatewayRequest("skills.add", TRUE, a, h, << ImportedOf("a"), ImportedOf("b") >>, d) :
      a \in AutoInstallValues, h \in Hosts, d \in Discoveries }
  \cup
  { GatewayRequest(m, ok, "absent", GatewayHost, << ImportedOf("a") >>, NoDiscovery) :
      m \in GatewayMethods, ok \in BOOLEAN }

\* An entry of the record of what a handler did: a call of a callee, its
\* return, a bump of the snapshot version, the response.
Ev(op, name, id, ok) == [op |-> op, name |-> name, id |-> id, ok |-> ok]

\* Variant: an absent autoInstall counts as requested.
AutoInstallRequestedByDefault(p) == p.autoInstall # "false"

\* p.autoInstall
AutoInstallRequested(p) == p.autoInstall = "true"

\* The chain of continue statements of the auto-install loop, up to the
\* choice of the installer.
AutoInstallGuard(status) ==
  /\ status.present
  /\ ~status.eligible
  /\ status.install # << >>
  /\ status.missing.os = << >>
  /\ MissingBins(status)

\* Variant: the last installer declared.
installIdOfLast(status) == status.install[Len(status.install)].id

\* status.install[0]?.id
installIdOf(status) == status.install[1].id

\* The loop calls installSkill for this entry.
ShouldAutoInstall(entry) ==
  AutoInstallGuard(entry.status) /\ installIdOf(entry.status) # ""

\* The first entry at or after position from for which the loop calls
\* installSkill, 0 if there is none.
NextInstall(skills, from) ==
  LET turns == { i \in from .. Len(skills) : ShouldAutoInstall(skills[i]) }
  IN IF turns = {} THEN 0 ELSE CHOOSE i \in turns : \A j \in turns : i <= j

\* installSkill that returned ok: the binaries of the skill of that name
\* are there, and the host's report says so.
InstalledHost(host, skillName) ==
  [i \in DOMAIN host |->
     IF host[i].status.present /\ host[i].status.name = skillName
     THEN [host[i] EXCEPT
             !.status.missing.bins = << >>,
             !.status.missing.anyBins = << >>,
             !.status.eligible =
                /\ ~host[i].blocked
                /\ host[i].status.missing.env = << >>
                /\ host[i].status.missing.config = << >>
                /\ host[i].status.missing.os = << >>]
     ELSE host[i]]

NoValidation == [present |-> FALSE, report |-> ReportOf(<< >>)]

NoImport == [ok |-> FALSE, imported |-> << >>]

\* Variant: the version is bumped whatever the outcome.
FinishedAlwaysBump(r, ok) ==
  [r EXCEPT !.pc = "done", !.version = @ + 1,
            !.response = [sent |-> TRUE, ok |-> ok],
            !.log = @ \o << Ev("bump", "", "", TRUE), Ev("respond", "", "", ok) >>]

\* if (ok) bumpSkillsSnapshotVersion(); respond(ok, ...)
Finished(r, ok) ==
  [r EXCEPT !.pc = "done", !.version = IF ok THEN @ + 1 ELSE @,
            !.response = [sent |-> TRUE, ok |-> ok],
            !.log = @ \o (IF ok THEN << Ev("bump", "", "", TRUE) >> ELSE << >>)
                      \o << Ev("respond", "", "", ok) >>]

\* The handler calls installSkill for entry i of the validation it holds.
CallInstall(r, i) ==
  [r EXCEPT !.pc = "installing", !.i = i,
            !.log = Append(@, Ev("install", r.validation.report.skills[i].status.name,
                                 installIdOf(r.validation.report.skills[i].status), TRUE))]

\* The handler calls validateImportedSkills.
CallValidate(r, pc) ==
  [r EXCEPT !.pc = pc, !.log = Append(@, Ev("validate", "", "", TRUE))]

\* The auto-install loop from position from: the next call of installSkill,
\* or the second validation.
LoopFrom(r, from) ==
  IF NextInstall(r.validation.report.skills, from) # 0
  THEN CallInstall(r, NextInstall(r.validation.report.skills, from))
  ELSE CallValidate(r, "revalidating")

InitGateway ==
  /\ Quiet
  /\ arg \in GatewayRequests
  /\ ret = [pc |-> "begin", host |-> arg.host, source |-> "",
            imported |-> NoImport, validation |-> NoValidation,
            first |-> NoValidation, i |-> 0, attempted |-> 0, version |-> 0,
            response |-> [sent |-> FALSE, ok |-> FALSE], log |-> << >>]

\* The validator rejects the parameters: the response, and nothing else.
GwInvalidParams ==
  /\ ret.pc = "begin" /\ ~arg.paramsOk
  /\ ret' = [ret EXCEPT !.pc = "done", !.response = [sent |-> TRUE, ok |-> FALSE],
                        !.log = Append(@, Ev("respond", "", "", FALSE))]
  /\ UNCHANGED << progVars, arg >>

\* skills.import calls importSkills with the source of the request.
GwImportCall ==
  /\ ret.pc = "begin" /\ arg.paramsOk /\ arg.method = "skills.import"
  /\ ret' = [ret EXCEPT !.pc = "importing", !.source = "given",
                        !.log = Append(@, Ev("import", "given", "", TRUE))]
  /\ UNCHANGED << progVars, arg >>

\* skills.add calls discoverSkills.
GwDiscoverCall ==
  /\ ret.pc = "begin" /\ arg.paramsOk /\ arg.method = "skills.add"
  /\ ret' = [ret EXCEPT !.pc = "discovering",
                        !.log = Append(@, Ev("discover", "", "", TRUE))]
  /\ UNCHANGED << progVars, arg >>

\* discoverSkills returned not ok or without a candidate: the response.
GwDiscoveredNothing ==
  /\ ret.pc = "discovering"
  /\ ~arg.discovered.ok \/ Len(arg.discovered.candidates) = 0
  /\ ret' = [ret EXCEPT !.pc = "done", !.response = [sent |-> TRUE, ok |-> FALSE],
               !.log = @ \o << Ev("discover-ret", "", "", arg.discovered.ok),
                               Ev("respond", "", "", FALSE) >>]
  /\ UNCHANGED << progVars, arg >>

\* discoverSkills returned candidates: importSkills is called with the
\* source of the first.
GwDiscovered ==
  /\ ret.pc = "discovering"
  /\ ~(~arg.discovered.ok \/ Len(arg.discovered.candidates) = 0)
  /\ ret' = [ret EXCEPT !.pc = "importing",
               !.source = arg.discovered.candidates[1].source,
               !.log = @ \o << Ev("discover-ret", "", "", TRUE),
                               Ev("import", arg.discovered.candidates[1].source, "", TRUE) >>]
  /\ UNCHANGED << progVars, arg >>

\* importSkills throws: the handler is left.
GwImportThrew ==
  /\ ret.pc = "importing"
  /\ ret' = [ret EXCEPT !.pc = "thrown", !.log = Append(@, Ev("import-threw", "", "", FALSE))]
  /\ UNCHANGED << progVars, arg >>

\* importSkills returned ok=false: no validation, no installer, no bump.
GwImportFailed ==
  /\ ret.pc = "importing"
  /\ ret' = Finished([ret EXCEPT !.imported = NoImport,
                                 !.log = Append(@, Ev("import-ret", "", "", FALSE))],
                     FALSE)
  /\ UNCHANGED << progVars, arg >>

\* importSkills returned ok=true: validateImportedSkills is called.
GwImported ==
  /\ ret.pc = "importing"
  /\ ret' = CallValidate([ret EXCEPT !.imported = [ok |-> TRUE, imported |-> arg.batch],
                                     !.log = Append(@, Ev("import-ret", "", "", TRUE))],
                         "validating")
  /\ UNCHANGED << progVars, arg >>

\* The first validation returned and autoInstall is not set: bump, respond.
GwValidated ==
  /\ ret.pc = "validating" /\ ~AutoInstallRequested(arg)
  /\ LET report == validateImportedSkills(ret.host, ret.imported.imported)
     IN ret' = Finished([ret EXCEPT !.validation = [present |-> TRUE, report |-> report],
                                    !.first = [present |-> TRUE, report |-> report],
                                    !.log = Append(@, Ev("validate-ret", "", "", report.ok))],
                        ret.imported.ok)
  /\ UNCHANGED << progVars, arg >>

\* The first validation returned and autoInstall is set: the loop starts.
GwValidatedAuto ==
  /\ ret.pc = "validating" /\ AutoInstallRequested(arg)
  /\ LET report == validateImportedSkills(ret.host, ret.imported.imported)
     IN ret' = LoopFrom([ret EXCEPT !.validation = [present |-> TRUE, report |-> report],
                                    !.first = [present |-> TRUE, report |-> report],
                                    !.log = Append(@, Ev("validate-ret", "", "", report.ok))],
                        1)
  /\ UNCHANGED << progVars, arg >>

\* installSkill returned: the loop goes on with the entries after it.
GwInstalled ==
  /\ ret.pc = "installing"
  /\ \E ok \in BOOLEAN :
       LET name == ret.validation.report.skills[ret.i].status.name
       IN ret' = LoopFrom([ret EXCEPT
                             !.host = IF ok THEN InstalledHost(@, name) ELSE @,
                             !.attempted = @ + 1,
                             !.log = Append(@, Ev("install-ret", name, "", ok))],
                          ret.i + 1)
  /\ UNCHANGED << progVars, arg >>

\* The second validation returned: bump, respond.
GwRevalidated ==
  /\ ret.pc = "revalidating"
  /\ LET report == validateImportedSkills(ret.host, ret.imported.imported)
     IN ret' = Finished([ret EXCEPT !.validation = [present |-> TRUE, report |-> report],
                                    !.log = Append(@, Ev("validate-ret", "", "", report.ok))],
                        ret.imported.ok)
  /\ UNCHANGED << progVars, arg >>

\* skills.install calls installSkill.
GwInstallCall ==
  /\ ret.pc = "begin" /\ arg.paramsOk /\ arg.method = "skills.install"
  /\ ret' = [ret EXCEPT !.pc = "install",
                        !.log = Append(@, Ev("install", "a", "brew-0", TRUE))]
  /\ UNCHANGED << progVars, arg >>

\* installSkill returned: bump if ok, respond.
GwInstallReturned ==
  /\ ret.pc = "install"
  /\ \E ok \in BOOLEAN :
       ret' = Finished([ret EXCEPT !.host = IF ok THEN InstalledHost(@, "a") ELSE @,
                                   !.log = Append(@, Ev("install-ret", "a", "", ok))],
                       ok)
  /\ UNCHANGED << progVars, arg >>

\* skills.update builds the next config and calls writeConfigFile.
GwUpdateCall ==
  /\ ret.pc = "begin" /\ arg.paramsOk /\ arg.method = "skills.update"
  /\ ret' = [ret EXCEPT !.pc = "writing", !.log = Append(@, Ev("write", "", "", TRUE))]
  /\ UNCHANGED << progVars, arg >>

\* writeConfigFile returned: bump, respond true.
GwUpdateWritten ==
  /\ ret.pc = "writing"
  /\ ret' = Finished([ret EXCEPT !.log = Append(@, Ev("write-ret", "", "", TRUE))], TRUE)
  /\ UNCHANGED << progVars, arg >>

\* writeConfigFile throws: the handler is left.
GwUpdateThrew ==
  /\ ret.pc = "writing"
  /\ ret' = [ret EXCEPT !.pc = "thrown", !.log = Append(@, Ev("write-threw", "", "", FALSE))]
  /\ UNCHANGED << progVars, arg >>

NextGateway ==
  \/ GwInvalidParams \/ GwImportCall \/ GwDiscoverCall \/ GwDiscoveredNothing
  \/ GwDiscovered \/ GwImportThrew \/ GwImportFailed \/ GwImported
  \/ GwValidated \/ GwValidatedAuto \/ GwInstalled \/ GwRevalidated
  \/ GwInstallCall \/ GwInstallReturned
  \/ GwUpdateCall \/ GwUpdateWritten \/ GwUpdateThrew

SpecGateway == InitGateway /\ [][NextGateway]_vars


(***************************************************************************)
(* inspectOpenClawMetadata on its own.  JSON5.parse is the library's: the  *)
(* metadata text either makes it throw or gives a value, of which only     *)
(* the kind matters here, and for an object the kinds of the values under  *)
(* the manifest key, a legacy manifest key and some other key.             *)
(***************************************************************************)

\* The kinds of value JSON5.parse returns ("absent": no such property).
JsKinds ==
  { "null", "false", "true", "zero", "number", "empty", "string", "array", "object" }

\* Boolean(value)
JsTruthy(kind) == kind \in { "true", "number", "string", "array", "object" }

\* typeof value === "object"
TypeofObject(kind) == kind \in { "null", "array", "object" }

\* [MANIFEST_KEY, ...LEGACY_MANIFEST_KEYS]
ManifestKeys == { "manifest", "legacy" }

PropertyKeys == ManifestKeys \cup { "other" }

NoProps == [k \in PropertyKeys |-> "absent"]

\* The metadata field of a frontmatter: whether it is a string, the string
\* trimmed is empty, JSON5.parse throws on it, and the value it gives.
MetadataField(isString, blank, throws, kind, props) ==
  [isString |-> isString, blank |-> blank, throws |-> throws, kind |-> kind,
   props |-> props]

MetadataFields ==
  { MetadataField(FALSE, FALSE, FALSE, "null", NoProps),
    MetadataField(TRUE, TRUE, FALSE, "null", NoProps),
    MetadataField(TRUE, FALSE, TRUE, "null", NoProps) }
  \cup { MetadataField(TRUE, FALSE, FALSE, k, NoProps) : k \in JsKinds \ { "object" } }
  \cup { MetadataField(TRUE, FALSE, FALSE, "object", p) :
           p \in [PropertyKeys -> { "absent", "null", "false", "string", "array", "object" }] }

\* The result of inspectOpenClawMetadata, with whether it carries an error.
InspectionResult(present, parseOk, manifestFound, error) ==
  [inspection |-> MetadataInspection(present, parseOk, manifestFound), error |-> error]

inspectOpenClawMetadata(field) ==
  IF ~field.isString \/ field.blank
  THEN InspectionResult(FALSE, TRUE, FALSE, FALSE)
  ELSE IF field.throws
  THEN InspectionResult(TRUE, FALSE, FALSE, TRUE)
  ELSE IF ~JsTruthy(field.kind) \/ ~TypeofObject(field.kind)
  THEN InspectionResult(TRUE, FALSE, FALSE, TRUE)
  ELSE InspectionResult(TRUE, TRUE,
         \E key \in ManifestKeys :
           JsTruthy(field.props[key]) /\ TypeofObject(field.props[key]),
         FALSE)

InitInspect ==
  /\ Quiet
  /\ arg \in MetadataFields
  /\ ret = [done |-> FALSE, out |-> InspectionResult(FALSE, TRUE, FALSE, FALSE)]

InspectMetadata ==
  /\ ~ret.done
  /\ ret' = [done |-> TRUE, out |-> inspectOpenClawMetadata(arg)]
  /\ UNCHANGED << progVars, arg >>

NextInspect == InspectMetadata

SpecInspect == InitInspect /\ [][NextInspect]_vars

(***************************************************************************)
(* Properties                                                              *)
(***************************************************************************)

IsImport(rec) == rec.kind = "import"

\* An import call that has returned a result.
Returned(rec) == IsImport(rec) /\ rec.pc = "done" /\ rec.exit = "return"

\* The finished calls of the sequential client, oldest first.
Log == hist \o (IF call[1].pc = "done" THEN << call[1] >> ELSE << >>)

\* The destination of the skill of a local skill directory.
SkillDest(rec) ==
  PathJoin(rec.targetDir,
           DestName({}, DeclaredName(ManifestAt(Trim(rec.req.source))),
                    Trim(rec.req.source)))

\* Three successive calls on one local skill directory and one target,
\* without overwrite, without overwrite, with overwrite; the destination is
\* absent before the first; no I/O failure.
C1_Scenario(a, b, c) ==
  /\ IsImport(a) /\ IsImport(b) /\ IsImport(c)
  /\ b.req.source = a.req.source /\ c.req.source = a.req.source
  /\ a.targetDir # << >> /\ b.targetDir = a.targetDir /\ c.targetDir = a.targetDir
  /\ a.req.overwrite # TRUE /\ b.req.overwrite # TRUE /\ c.req.overwrite = TRUE
  /\ ManifestAt(Trim(a.req.source)).readable
  /\ SkillDest(a) \notin DOMAIN a.pre
  /\ ~a.faulted /\ ~b.faulted /\ ~c.faulted

C1_Outcome(a, b, c) ==
  /\ Returned(a) /\ a.result.ok /\ Len(a.result.imported) = 1
  /\ Returned(b) /\ ~b.result.ok /\ b.result.imported = << >>
  /\ Len(b.result.skipped) = 1 /\ b.result.skipped[1].reason = "conflict"
  /\ Returned(c) /\ c.result.ok /\ Len(c.result.imported) = 1
  /\ LET src == c.result.imported[1].sourceDir
         dest == c.result.imported[1].destDir
     IN /\ src = Trim(c.req.source)
        /\ dest \in DOMAIN c.post
        /\ c.post[dest].src = src
        /\ c.post[dest].mf = ManifestAt(src)
        /\ ~c.post[dest].partial
        /\ c.verIn[src] <= c.post[dest].ver
        /\ c.post[dest].ver <= c.verOut[src]

\* C1: from a target root without the destination, three successive imports
\* of one local skill directory into one target give: ok with one imported
\* entry; not ok with no imported entry and one 'conflict' skip; with
\* overwrite, ok with one imported entry, the destination holding the source
\* content as of the third call.
C1_ThreeImports ==
  \A i \in 1..(Len(Log) - 2) :
    C1_Scenario(Log[i], Log[i + 1], Log[i + 2])
      => C1_Outcome(Log[i], Log[i + 1], Log[i + 2])

\* The three calls have been made and the third replaced older content.
C1_Replaced ==
  \E i \in 1..(Len(Log) - 2) :
    /\ C1_Scenario(Log[i], Log[i + 1], Log[i + 2])
    /\ Log[i + 2].post[SkillDest(Log[i])].ver > Log[i].post[SkillDest(Log[i])].ver

\* Two import calls on the same resolved target root.
SameRoot(c, d) ==
  /\ c # d /\ IsImport(call[c]) /\ IsImport(call[d])
  /\ call[c].targetDir # << >>
  /\ call[c].targetDir = call[d].targetDir

\* Two calls that overlapped: one was made while the other was in progress.
Concurrent(c, d) == c \in call[d].concWith \/ d \in call[c].concWith

\* C2: for every resolved target root at most one importSkills call is in
\* its resolve/scan/copy section at a time, whether the root is reached as
\* the workspace or as the managed target.
C2_OneSectionPerRoot ==
  \A c, d \in Slots : SameRoot(c, d) => ~(InSection(c) /\ InSection(d))

\* A call on a root reached as the managed target is in its section after an
\* overlapping call that reached the same root as the workspace has finished.
C2_SecondAfterFirst ==
  \E c, d \in Slots :
    /\ SameRoot(c, d) /\ Concurrent(c, d)
    /\ call[c].req.target = "workspace" /\ call[d].req.target = "managed"
    /\ call[c].pc = "done" /\ call[c].made # {}
    /\ InSection(d)

\* The destinations a call found absent.
FoundAbsent(rec) == { k.destDir : k \in { x \in Range(rec.checks) : ~x.exists } }

\* The destinations a call found present.
FoundPresent(rec) == { k.destDir : k \in { x \in Range(rec.checks) : x.exists } }

\* C3, as stated: two concurrent imports into one root never both observe
\* 'destination does not exist' for the same name.
C3_NeverBothObserveAbsent ==
  \A c, d \in Slots :
    SameRoot(c, d) /\ Concurrent(c, d)
      => FoundAbsent(call[c]) \cap FoundAbsent(call[d]) = {}

\* C3, amended: two concurrent imports into one root are never both between
\* observing 'destination does not exist' for a name and the end of the copy
\* to it, and at most one of them both observes that and creates the
\* destination.
C3_NoDuplicateWrite ==
  \A c, d \in Slots :
    SameRoot(c, d) /\ Concurrent(c, d)
      => /\ ~(/\ call[c].pc = "cp" /\ call[d].pc = "cp"
              /\ call[c].cur.destDir = call[d].cur.destDir)
         /\ (FoundAbsent(call[c]) \cap call[c].made)
              \cap (FoundAbsent(call[d]) \cap call[d].made) = {}

\* Two concurrent imports into one root have finished: one found the
\* destination absent and created it, the other found it present.
C3_OneWriter ==
  \E c, d \in Slots :
    /\ SameRoot(c, d) /\ Concurrent(c, d)
    /\ call[c].pc = "done" /\ call[d].pc = "done"
    /\ (FoundAbsent(call[c]) \cap call[c].made) \cap FoundPresent(call[d]) # {}

IsDiscover(rec) == rec.kind = "discover"

\* Two calls whose tasks have the same key: imports into the same root, or
\* discoveries with the same mode and the same trimmed prompt.
SameTask(c, d) ==
  /\ c # d
  /\ \/ SameRoot(c, d)
     \/ /\ IsDiscover(call[c]) /\ IsDiscover(call[d])
        /\ call[c].dmode = call[d].dmode
        /\ call[c].prompt = call[d].prompt

\* A queued call whose task cannot start yet.
Waiting(c) == call[c].pc = "queued" /\ ~AtHead(queue, call[c].key, c)

\* C4: serialization is per key, not global: a call waits only for a call
\* of the same kind with the same key (the same root, or the same mode and
\* prompt) that is in progress; a call on another root or another query,
\* and a call of the other kind, never makes it wait.
C4_PerKeyNotGlobal ==
  \A c \in Slots :
    Waiting(c)
      => \E d \in Slots : SameTask(c, d) /\ call[d].pc \notin {"idle", "done"}

\* Two imports into different roots are in their sections together, the
\* second having entered while the first was copying.
C4_TwoRootsInProgress ==
  \E c, d \in Slots :
    /\ IsImport(call[c]) /\ IsImport(call[d])
    /\ call[c].targetDir # call[d].targetDir
    /\ call[c].pc = "cp" /\ call[d].pc = "cp"

\* C5: two overlapping discoverSkills calls with the same mode and the same
\* trimmed prompt run one after the other: never is one in its section
\* (index fetch, repository search, clone, scan) while the other is.
C5_SameQueryOneAtATime ==
  \A c, d \in Slots :
    (/\ c # d /\ IsDiscover(call[c]) /\ IsDiscover(call[d])
     /\ call[c].dmode = call[d].dmode
     /\ call[c].prompt = call[d].prompt)
      => ~(InSection(c) /\ InSection(d))

\* Two overlapping discoveries whose prompts differ only by white space: one
\* has cloned and finished, the other is cloning.
C5_SecondClonesAfterFirst ==
  \E c, d \in Slots :
    /\ IsDiscover(call[c]) /\ IsDiscover(call[d]) /\ Concurrent(c, d)
    /\ call[c].dreq.prompt # call[d].dreq.prompt
    /\ call[c].prompt = call[d].prompt /\ call[c].dmode = call[d].dmode
    /\ call[c].pc = "done" /\ "cloned" \in Range(call[c].trail)
    /\ call[d].pc = "dclone"

\* The expected failure modes of importSkills.
ImportFailureModes ==
  {"no-workspace", "missing", "nopath", "clone-failed", "root-missing", "no-manifest"}

\* An import that met an expected failure mode returned a structured
\* failure.
C7_ImportFailure(rec) ==
  (IsImport(rec) /\ rec.pc = "done" /\ rec.mode \in ImportFailureModes)
    => /\ rec.exit = "return"
       /\ ~rec.result.ok
       /\ rec.result.imported = << >>
       /\ rec.result.message # ""

DiscoverFailed(rec) == ~rec.dresult.ok /\ rec.dresult.candidates = << >>

\* C7, as stated: an import that meets an expected failure mode returns
\* ok=false with no imported entry and a message and does not throw; a
\* discovery with an empty prompt, a failed index fetch, a failed repository
\* search or a failed clone returns ok=false with no candidate.
C7_FailureMeansNotOk ==
  \A rec \in Range(Log) \cup {call[1]} :
    /\ C7_ImportFailure(rec)
    /\ (/\ IsDiscover(rec) /\ rec.pc = "done"
        /\ Range(rec.trail) \cap
             {"empty-prompt", "index-failed", "search-failed", "clone-failed"} # {})
         => rec.exit = "return" /\ DiscoverFailed(rec)

\* C7, amended: the import part as stated; a discovery never throws, and
\* returns ok=false with no candidate for an empty prompt, for a failed
\* index fetch in mode skill-pool, for a failed repository search, and when
\* no clone succeeded; a failed index fetch in mode auto and a failed clone
\* of one repository are recorded as warnings and the search goes on.
C7_StructuredFailures ==
  \A rec \in Range(Log) \cup {call[1]} :
    /\ C7_ImportFailure(rec)
    /\ (IsDiscover(rec) /\ rec.pc = "done")
         => /\ rec.exit = "return"
            /\ rec.dresult.message # ""
            /\ rec.dresult.ok <=> rec.dresult.candidates # << >>
            /\ "empty-prompt" \in Range(rec.trail) => DiscoverFailed(rec)
            /\ ("index-failed" \in Range(rec.trail) /\ rec.dmode = M_skillPool)
                 => DiscoverFailed(rec)
            /\ "search-failed" \in Range(rec.trail) => DiscoverFailed(rec)
            /\ ("clone-failed" \in Range(rec.trail) /\ "cloned" \notin Range(rec.trail))
                 => DiscoverFailed(rec)
            /\ "index-failed" \in Range(rec.trail)
                 => "skill-pool index fetch failed" \in Range(rec.dresult.warnings)
            /\ "clone-failed" \in Range(rec.trail)
                 => "git clone failed" \in Range(rec.dresult.warnings)

\* After an import whose clones all failed, a discovery in mode auto whose
\* index fetch failed and whose only clone failed has returned ok=false.
C7_BothFailed ==
  /\ Len(hist) = 1 /\ IsImport(hist[1]) /\ hist[1].mode = "clone-failed"
  /\ IsDiscover(call[1]) /\ call[1].pc = "done" /\ call[1].dmode = M_auto
  /\ call[1].trail = << "index-failed", "search-ok", "clone-failed" >>
  /\ DiscoverFailed(call[1])

\* C6: whenever importSkills returns a result, ok is true iff the imported
\* list is non-empty; all scanned directories skipped gives ok=false with
\* each of them listed; some imported and some skipped gives ok=true.
C6_OkIffImported ==
  \A c \in Slots :
    Returned(call[c]) =>
      LET r == call[c].result IN
        /\ r.ok <=> Len(r.imported) > 0
        /\ (call[c].scanned # << >> /\ r.imported = << >>)
             => /\ ~r.ok
                /\ { k.sourceDir : k \in Range(r.skipped) } = Range(call[c].scanned)
        /\ (r.imported # << >> /\ r.skipped # << >>) => r.ok

\* A call has returned with some entries imported and some skipped.
C6_PartialSuccess ==
  \E c \in Slots :
    /\ Returned(call[c])
    /\ call[c].result.imported # << >> /\ call[c].result.skipped # << >>

\* C8: the temporary clone directory an importSkills call created does not
\* exist any more when the call has returned or thrown.
C8_TmpRemoved ==
  \A c \in Slots :
    (IsImport(call[c]) /\ call[c].pc = "done" /\ call[c].madeTmp # 0)
      => call[c].madeTmp \notin DOMAIN tmp

\* A call that cloned has ended with an exception raised while copying.
C8_ThrownAfterClone ==
  \E c \in Slots :
    /\ IsImport(call[c]) /\ call[c].pc = "done" /\ call[c].madeTmp # 0
    /\ call[c].exit = "throw" /\ call[c].mode = "rm-failed"

\* Without overwrite: what was under the target root before the call is
\* unchanged after it, and every entry whose destination existed is a
\* 'conflict' skip.
C9_Kept(rec) ==
  /\ \A p \in DOMAIN rec.pre :
       Under(p, rec.targetDir) => p \in DOMAIN rec.post /\ rec.post[p] = rec.pre[p]
  /\ \A k \in Range(rec.checks) :
       k.exists => Skipped(k.skillDir, "conflict") \in Range(rec.skipped)

\* A step that removes directories: an overwriting call removes the existing
\* destination of the entry it is importing.
C9_Removal ==
  \A p \in DOMAIN fs \ DOMAIN fs' :
    \E c \in Slots :
      /\ IsImport(call[c]) /\ call[c].pc = "rm"
      /\ call[c].req.overwrite = TRUE
      /\ call[c].cur.exists
      /\ ChildOf(call[c].cur.destDir, call[c].targetDir)
      /\ Under(p, call[c].cur.destDir)

\* C9: importSkills removes a directory under the target root only when
\* overwrite=true and the directory is the existing destination of the entry
\* being imported; without overwrite every directory that was under the
\* target root before the call is unchanged after it and each entry whose
\* destination exists is a 'conflict' skip.
C9_OnlyOverwriteRemoves ==
  /\ [](\A c \in Slots :
          (IsImport(call[c]) /\ call[c].pc = "done" /\ call[c].req.overwrite # TRUE)
            => C9_Kept(call[c]))
  /\ [][C9_Removal]_vars

\* A call without overwrite has returned a 'conflict' skip for a destination
\* that an earlier call had installed, and left it as it was.
C9_ConflictKept ==
  \E c \in Slots :
    /\ Returned(call[c]) /\ call[c].req.overwrite # TRUE
    /\ \E k \in Range(call[c].checks) :
         /\ k.exists /\ k.destDir \in DOMAIN call[c].pre
         /\ call[c].post[k.destDir] = call[c].pre[k.destDir]
         /\ Skipped(k.skillDir, "conflict") \in Range(call[c].result.skipped)

SourceDirs(entries) == [i \in DOMAIN entries |-> entries[i].sourceDir]

\* C10: once the batch is scanned, no failure local to one entry (unreadable
\* manifest, conflict, copy failure, removal of the old destination under
\* overwrite) stops the remaining entries: the call returns, and every
\* scanned directory is in exactly one of imported and skipped, in scan order.
C10_EveryEntryAccounted ==
  \A c \in Slots :
    (IsImport(call[c]) /\ call[c].pc = "done" /\ call[c].scanned # << >>)
      => /\ call[c].exit = "return"
         /\ LET imp == SourceDirs(call[c].result.imported)
                skp == SourceDirs(call[c].result.skipped)
            IN /\ Range(imp) \cap Range(skp) = {}
               /\ Range(imp) \cup Range(skp) = Range(call[c].scanned)
               /\ Pick(call[c].scanned, Range(imp)) = imp
               /\ Pick(call[c].scanned, Range(skp)) = skp

\* C11: within one importSkills call the destination names given to the
\* scanned directories are pairwise distinct.
C11_DestNamesDistinct ==
  \A i, j \in DOMAIN ret.dirNames :
    i # j => ret.dirNames[i] # ret.dirNames[j]

\* C12: resolving https://github.com/<owner>/<repo>/tree/<ref>/<subdir> uses
\* the same clone URL, the same ref and the same subdirectory as resolving
\* the clone URL of that repository with ref and subdir given as parameters.
C12_TreeUrlAsPlain ==
  (arg \in Twins /\ Len(ret) = 2)
    => /\ ret[1].clone = ret[2].clone
       /\ ret[1].subdir = ret[2].subdir
       /\ ret[1].rootDir = ret[2].rootDir

\* The value resolveSource is to use: the one the URL was built with, else
\* the explicit parameter if it is a non-empty string.
C13_Expected(urlValue, param) ==
  IF urlValue # Undefined THEN urlValue
  ELSE IF Truthy(param) THEN param ELSE Undefined

C13_Overridden(urlValue, param) == urlValue # Undefined /\ Truthy(param)

C13_RootOf(e, subdir) ==
  LET base == IF isUrlLike(e.params.source) THEN RepoDirOf(1) ELSE e.params.source
  IN IF subdir = Undefined THEN base ELSE PathJoin(base, subdir)

\* C13: a ref or subdirectory embedded in the source URL is the one used for
\* the clone and for the scan root, with one warning for each explicit
\* parameter it overrides; an explicit parameter is used only when the URL
\* embeds no value for it.  (URLs whose ref has no slash; the others are the
\* subject of C12.)
C13_UrlValueWins ==
  \A i \in DOMAIN ret :
    LET e == arg[i]
        r == ret[i]
    IN (e.urlRef = Undefined \/ "/" \notin Range(e.urlRef))
         => /\ r.clone.branch = C13_Expected(e.urlRef, e.params.ref)
            /\ r.rootDir = C13_RootOf(e, C13_Expected(e.urlSubdir, e.params.subdir))
            /\ ("both ref: using the URL ref" \in Range(r.warnings))
                 <=> C13_Overridden(e.urlRef, e.params.ref)
            /\ ("both subdir: using the URL subdir" \in Range(r.warnings))
                 <=> C13_Overridden(e.urlSubdir, e.params.subdir)
            /\ Len(r.warnings) =
                 (IF C13_Overridden(e.urlRef, e.params.ref) THEN 1 ELSE 0)
                 + (IF C13_Overridden(e.urlSubdir, e.params.subdir) THEN 1 ELSE 0)

\* A tree URL with ref v1 and subdirectory k was resolved for a request that
\* also gave ref c0 and subdirectory zz: v1 and k are used, with two warnings.
C13_BothOverridden ==
  /\ Len(ret) = 1
  /\ arg[1].urlRef = R_branch /\ arg[1].urlSubdir = D_k
  /\ arg[1].params.ref = R_commit /\ arg[1].params.subdir = D_zz
  /\ ret[1].clone.branch = R_branch
  /\ ret[1].rootDir = PathJoin(RepoDirOf(1), D_k)
  /\ Len(ret[1].warnings) = 2

\* d lies inside a directory below the scan root whose name is ignored.
InsideIgnored(d, rootDir, ignored) ==
  \E n \in 1..Len(d) :
    LET q == SubSeq(d, 1, n)
    IN /\ d[n] # Sep /\ (n = Len(d) \/ d[n + 1] = Sep)
       /\ q # d /\ q # rootDir /\ Under(q, rootDir)
       /\ Basename(q) \in ignored

\* C14: the scanner never finds or returns a directory that lies inside a
\* directory below the scan root whose name is on the ignore list.
C14_NothingInsideIgnored ==
  \A d \in ret.found \cup Range(ret.result) :
    ~InsideIgnored(d, arg.rootDir, IgnoredNames(arg.by))

\* A scan from /r is over: /r/a was returned, and neither /r/a/build/x nor
\* the skill directories under /r/node_modules, all holding a SKILL.md.
C14_VendoredSkipped ==
  /\ ret.done /\ arg.rootDir = T_root
  /\ T_a \in Range(ret.result)
  /\ arg.tree[T_buildX].manifest /\ arg.tree[T_modsPQ].manifest
  /\ Range(ret.result) \cap {T_buildX, T_modsP, T_modsPQ} = {}

\* C15: no directory nested inside a recorded skill directory is returned.
C15_NoNestedSkillDir ==
  \A d, e \in ret.found \cup Range(ret.result) :
    d # e => ~Under(e, d)

\* The depth of a directory below the scan root.
DepthBelow(d, rootDir) ==
  Cardinality({ n \in (Len(rootDir) + 1)..Len(d) : d[n] = Sep })

\* C16: the scanner terminates on every tree, and never reads or returns a
\* directory more than 12 levels below the scan root.
C16_TerminatesWithinDepth ==
  /\ <>(ret.done)
  /\ [](\A d \in ret.visited \cup ret.found \cup Range(ret.result) :
          DepthBelow(d, arg.rootDir) <= MaxWalkDepth)

\* A scan is over on a tree with an unreadable directory and a chain 14
\* levels deep with SKILL.md at levels 12 and 13: the directory at level 12
\* was returned, the one at level 13 was not read.
C16_DeepChainCut ==
  /\ ret.done /\ arg.rootDir = T_root
  /\ arg.tree[Chain(MaxWalkDepth)].manifest /\ arg.tree[Chain(MaxWalkDepth + 1)].manifest
  /\ Chain(MaxWalkDepth) \in Range(ret.result)
  /\ Chain(MaxWalkDepth + 1) \notin ret.visited
  /\ T_unreadable \in ret.visited /\ T_unreadable \notin Range(ret.result)

\* C17: every score scoreSkillMatch returns lies in [0, 1], with or without
\* the bonus, and a prompt without a usable query token scores 0.
C17_ScoreInUnitInterval ==
  \A i \in DOMAIN ret :
    /\ ret[i].den > 0
    /\ 0 <= ret[i].num
    /\ ret[i].num <= ret[i].den
    /\ pickQueryTokens(arg.prompt, MaxQueryTokens) = << >> => ret[i].num = 0

\* The bonus is earned on top of a score above 0.85, and the result is 1.
C17_BonusCapped ==
  /\ Len(ret) = 2
  /\ ExactIsh(pickQueryTokens(arg.prompt, MaxQueryTokens), arg.pool[1].name)
  /\ arg.pool[1].description = << "m", "e", "r", "g", "e", " ", "a", " ", "p", "d", "f" >>
  /\ arg.pool[1].hasKeywords /\ arg.pool[1].keywords # << >>
  /\ ret[1] = Score(ret[1].den, ret[1].den)
  /\ arg.prompt = Q_pdf

\* C18: a candidate whose name is the prompt scores strictly higher than a
\* candidate that shares no token with the prompt.
ExactName(prompt, cand) == cand.name # Undefined /\ cand.name = prompt

TokensOfCandidate(cand) ==
  TokenSet(tokenize(ReplaceEach(OrEmpty(cand.name), {"-"}, " ")))
    \cup TokenSet(tokenize(OrEmpty(cand.description)))
    \cup UNION { TokenSet(tokenize(KeywordsOf(cand)[i])) : i \in DOMAIN KeywordsOf(cand) }

Unrelated(prompt, cand) == TokenSet(tokenize(prompt)) \cap TokensOfCandidate(cand) = {}

C18_ExactNameBeatsUnrelated ==
  (/\ Len(ret) = 2
   /\ ExactName(arg.prompt, arg.pool[1])
   /\ Unrelated(arg.prompt, arg.pool[2]))
  => ScoreLess(ret[2], ret[1])

\* The acceptance threshold of a provider.
ThresholdOf(provider) ==
  IF provider = "skill-pool" THEN thresholdSkillPool ELSE thresholdGitHub

\* C19: every candidate discoverSkills returns scores at or above the
\* threshold of its provider: 0.25 for skill-pool, 0.35 for github.
C19_AtOrAboveThreshold ==
  \A rec \in Range(Log) \cup {call[1]} :
    (IsDiscover(rec) /\ rec.pc = "done") =>
      \A i \in DOMAIN rec.dresult.candidates :
        LET cand == rec.dresult.candidates[i] IN
          /\ cand.provider \in {"skill-pool", "github"}
          /\ ~ScoreLess(cand.score, ThresholdOf(cand.provider))

\* The index entries with a url that score above 0 and below the threshold.
LowEntries(prompt) ==
  { e \in Range(PoolIndex.skills) :
      /\ Trim(OrEmpty(e.url)) # << >>
      /\ ScoreLess(ZeroScore, PoolCandidate(prompt, e).score)
      /\ ScoreLess(PoolCandidate(prompt, e).score, thresholdSkillPool) }

\* A call returned candidates of the index although an entry of the index
\* scored below 0.25, and a call in mode github returned nothing after it
\* scanned a clone whose skill directory scored below 0.35.
C19_LowScoresDropped ==
  /\ \E rec \in Range(Log) :
       /\ IsDiscover(rec) /\ "ranked" \in Range(rec.trail)
       /\ LowEntries(rec.prompt) # {}
       /\ \A e \in LowEntries(rec.prompt) :
            \A i \in DOMAIN rec.dresult.candidates :
              rec.dresult.candidates[i].skillName # e.name
  /\ IsDiscover(call[1]) /\ call[1].pc = "done" /\ call[1].dmode = M_github
  /\ "scanned" \in Range(call[1].trail)
  /\ call[1].dresult.candidates = << >>

\* C20: in mode auto the index is fetched first and the repository search
\* is issued only after the index gave no candidate or its fetch failed, a
\* failure that is recorded as a warning and followed by the search; in
\* mode skill-pool no search is issued; in mode github the index is never
\* fetched; the candidates of a result are all of one provider.
SearchIssued(rec) ==
  rec.pc = "search" \/ Range(rec.trail) \cap {"search-ok", "search-failed"} # {}

IndexFetched(rec) ==
  rec.pc = "index" \/ Range(rec.trail) \cap {"index-ok", "index-failed"} # {}

C20_IndexFirstThenSearch ==
  \A rec \in Range(Log) \cup {call[1]} :
    IsDiscover(rec) =>
      /\ (rec.dmode = M_auto /\ SearchIssued(rec))
           => /\ rec.trail # << >>
              /\ rec.trail[1] \in {"index-ok", "index-failed"}
              /\ "ranked" \notin Range(rec.trail)
      /\ (rec.dmode = M_auto /\ "index-failed" \in Range(rec.trail))
           => /\ "skill-pool index fetch failed" \in Range(rec.warnings)
              /\ SearchIssued(rec)
              /\ rec.exit # "throw"
      /\ (rec.dmode = M_auto /\ rec.pc = "done" /\ "ranked" \notin Range(rec.trail))
           => SearchIssued(rec)
      /\ rec.dmode = M_skillPool => ~SearchIssued(rec)
      /\ rec.dmode = M_github => ~IndexFetched(rec)
      /\ rec.pc = "done" =>
           \A i, j \in DOMAIN rec.dresult.candidates :
             rec.dresult.candidates[i].provider = rec.dresult.candidates[j].provider
      /\ (rec.pc = "done" /\ "ranked" \in Range(rec.trail))
           => \A i \in DOMAIN rec.dresult.candidates :
                rec.dresult.candidates[i].provider = "skill-pool"

\* A call in mode auto got an index without a match, searched, and returned
\* a candidate of provider github; and an earlier one whose index fetch
\* failed returned a candidate of the search with the warning.
C20_FellBackToSearch ==
  /\ IsDiscover(call[1]) /\ call[1].pc = "done" /\ call[1].dmode = M_auto
  /\ SubSeq(call[1].trail, 1, 2) = << "index-ok", "search-ok" >>
  /\ call[1].dresult.ok
  /\ call[1].dresult.candidates[1].provider = "github"
  /\ \E rec \in Range(hist) :
       /\ IsDiscover(rec) /\ rec.dmode = M_auto
       /\ rec.trail[1] = "index-failed"
       /\ rec.dresult.ok
       /\ "skill-pool index fetch failed" \in Range(rec.dresult.warnings)

\* The positions of the repositories of a search that have a name and a
\* clone URL, and the k-th of them.
UsableAt(repos) ==
  { i \in DOMAIN repos : ItemFullName(repos[i]) # << >> /\ ItemCloneUrl(repos[i]) # << >> }

KthUsable(repos, k) ==
  CHOOSE i \in UsableAt(repos) : Cardinality({ j \in UsableAt(repos) : j <= i }) = k

\* How the visits of a call ended, in order: the clone failed, the clone
\* was scanned, or the visit threw.
Outcomes(rec) == Pick(rec.trail, {"clone-failed", "scanned", "threw"})

\* The score of a skill directory of the repository for a prompt, and the
\* directories of the repository that the scan accepts for it.
DirScore(prompt, d) ==
  scoreSkillMatch(prompt, DeclaredName(d.mf), DeclaredDescription(d.mf), << >>)

Qualifying(prompt) ==
  { d \in RepoTree :
      /\ d.mf.present /\ d.mf.readable
      /\ ~ScoreLess(DirScore(prompt, d), thresholdGitHub) }

\* C21: the search visits the usable repositories in the order of the
\* response; the first one whose clone holds a qualifying directory ends
\* the search with exactly one candidate, its best directory, and no later
\* repository is cloned; a failed clone or a clone without a qualifying
\* directory leads to the next repository.
C21_FirstRepoBestDir ==
  \A rec \in Range(Log) \cup {call[1]} :
    (IsDiscover(rec) /\ "search-ok" \in Range(rec.trail)) =>
      LET k == Len(rec.tmps)
          out == Outcomes(rec)
      IN /\ k <= Cardinality(UsableAt(rec.repos))
         /\ k > 0 => rec.ridx = KthUsable(rec.repos, k)
         /\ Len(out) \in {k - 1, k}
         /\ \A i \in 1..(Len(out) - 1) :
              out[i] = "scanned" => Qualifying(rec.prompt) = {}
         /\ rec.pc = "done" =>
              /\ Len(out) = k
              /\ Len(rec.dresult.candidates) <= 1
              /\ rec.dresult.candidates = << >> =>
                   /\ k = Cardinality(UsableAt(rec.repos))
                   /\ \A i \in 1..k : out[i] = "scanned" => Qualifying(rec.prompt) = {}
              /\ rec.dresult.candidates # << >> =>
                   LET cand == rec.dresult.candidates[1] IN
                     /\ out[k] = "scanned"
                     /\ cand.provider = "github"
                     /\ cand.repoFullName = ItemFullName(rec.repos[rec.ridx])
                     /\ \E d \in Qualifying(rec.prompt) :
                          /\ cand.subdir = d.rel
                          /\ cand.score = DirScore(rec.prompt, d)
                     /\ \A d \in Qualifying(rec.prompt) :
                          ~ScoreLess(cand.score, DirScore(rec.prompt, d))

\* A search over three repositories ended at the first one, with its best
\* directory, which the scan met second; an earlier search went past a
\* repository whose clone failed.
C21_StoppedAtFirst ==
  /\ IsDiscover(call[1]) /\ call[1].pc = "done"
  /\ call[1].repos = << ItemGood, ItemDead, ItemGood >>
  /\ Len(call[1].tmps) = 1
  /\ Len(call[1].dresult.candidates) = 1
  /\ call[1].dresult.candidates[1].subdir = << "k" >>
  /\ Cardinality(Qualifying(call[1].prompt)) = 2
  /\ \E rec \in Range(hist) :
       /\ IsDiscover(rec) /\ rec.repos = << ItemNameless, ItemDead, ItemGood >>
       /\ Outcomes(rec) = << "clone-failed", "scanned" >>
       /\ rec.ridx = 3
       /\ Len(rec.dresult.candidates) = 1

\* The entries of the drawn index that rankSkillPoolIndex reads at all.
ListedEntries == IF arg.index.isArray THEN Range(arg.index.skills) ELSE {}

HasUrl(entry) == Trim(OrEmpty(entry.url)) # << >>

\* C22: rankSkillPoolIndex returns candidates in non-increasing score
\* order, the best accepted entry first, at most max(1, limit) of them,
\* each with provider skill-pool and the url of an entry of the index.
C22_RankedBestFirst ==
  ret.done =>
    /\ \A i, j \in DOMAIN ret.ranked :
         i < j => ~ScoreLess(ret.ranked[i].score, ret.ranked[j].score)
    /\ Len(ret.ranked) <= Max(1, arg.limit)
    /\ \A i \in DOMAIN ret.ranked :
         /\ ret.ranked[i].provider = "skill-pool"
         /\ ret.ranked[i].source # << >>
         /\ \E e \in ListedEntries :
              /\ HasUrl(e)
              /\ ret.ranked[i].source = Trim(e.url)
              /\ ret.ranked[i].score = PoolCandidate(arg.prompt, e).score
    /\ \A e \in ListedEntries :
         (HasUrl(e) /\ ~ScoreLess(PoolCandidate(arg.prompt, e).score, arg.threshold))
           => /\ ret.ranked # << >>
              /\ ~ScoreLess(ret.ranked[1].score, PoolCandidate(arg.prompt, e).score)

\* Two candidates are returned, the better one first although the index
\* lists it later; the entry without a url, which scores highest, is left
\* out.
C22_Reordered ==
  /\ ret.done
  /\ arg.prompt = Q_alpha /\ arg.limit = 2 /\ arg.threshold = ZeroScore
  /\ arg.index.skills =
       << IndexEntry(Q_alpha, Q_alpha, Undefined, << Q_alpha >>),
          IndexEntry(N_alphaKitXY, Undefined, U_low, << >>),
          IndexEntry(Q_alpha, Undefined, U_alpha, << >>) >>
  /\ Len(ret.ranked) = 2
  /\ ret.ranked[1].source = U_alpha
  /\ ret.ranked[2].source = U_low
  /\ ScoreLess(ret.ranked[2].score, ret.ranked[1].score)

\* Whether the host's loader lists the skill at a path, and what its
\* report says of it.
HostLists(host, skillPath) ==
  \E i \in DOMAIN host :
    host[i].listed /\ normalizePath(host[i].filePath) = normalizePath(skillPath)

HostEligible(host, skillPath) ==
  \E i \in DOMAIN host :
    /\ host[i].status.present /\ host[i].status.eligible
    /\ normalizePath(host[i].status.filePath) = normalizePath(skillPath)

\* C23: an entry of a validation report is ready iff it is loaded and the
\* eligibility report, built once in the call, has a status for its path
\* that is eligible; an entry without a status is not ready.
C23_ReadyIffLoadedEligible ==
  /\ ret.built <= 1
  /\ ret.pc # "begin" => ret.built = 1
  /\ \A i \in DOMAIN ret.validations :
       LET v == ret.validations[i] IN
         /\ v.ready <=> (v.loaded /\ v.status.present /\ v.status.eligible)
         /\ ~v.status.present => ~v.ready
         /\ v.loaded => HostLists(arg.host, v.skillPath)
         /\ v.status.present => v.status = findSkillStatusByPath(ret.report, v.skillPath)
         /\ v.ready => HostEligible(arg.host, v.skillPath)
         /\ ReadFileOk(arg.host, normalizePath(v.skillPath))
              => (v.ready <=> (/\ HostLists(arg.host, v.skillPath)
                               /\ HostEligible(arg.host, v.skillPath)))

\* A batch of two: one entry ready, found under the host's other spelling
\* of its path; the other loaded, but without a status, and not ready.
C23_LoadedWithoutStatus ==
  /\ ret.pc = "done" /\ Len(ret.validations) = 2
  /\ \E i, j \in 1..2 :
       /\ ret.validations[i].ready
       /\ ret.validations[i].skillPath = SkillPathOf("b")
       /\ ret.validations[j].loaded /\ ~ret.validations[j].status.present
       /\ ~ret.validations[j].ready

\* C24, as stated: for every list of imported entries, the empty one
\* included, the report is ok iff every entry of it is ready.
C24_OkIffAllReady ==
  ret.pc = "done" =>
    (ret.out.ok <=> \A i \in DOMAIN ret.out.skills : ret.out.skills[i].ready)

\* C24, amended: for a list that is not empty the report is ok iff every
\* entry is ready; for the empty list it is not ok.
C24_OkIffAllReadyNonEmpty ==
  ret.pc = "done" =>
    /\ Len(ret.out.skills) = Len(arg.imported)
    /\ arg.imported # << >> =>
         (ret.out.ok <=> \A i \in DOMAIN ret.out.skills : ret.out.skills[i].ready)
    /\ arg.imported = << >> => ~ret.out.ok

\* The empty list has been validated: the report has no entry and is not ok.
C24_EmptyBatchNotOk ==
  /\ ret.pc = "done" /\ arg.imported = << >> /\ ~ret.out.ok
  /\ ret.out.summary.total = 0

\* The entries of the validations a gateway call holds: the first one and
\* the one it returns.
HeldEntries ==
  Range(ret.first.report.skills) \cup Range(ret.validation.report.skills)

\* The handlers with an auto-install pass.
ImportingMethod == arg.method \in { "skills.import", "skills.add" }

\* A loaded skill that is not eligible, lacks a binary and declares no
\* installer.
NoInstallerCase(v) ==
  /\ v.loaded /\ v.status.present /\ ~v.status.eligible
  /\ MissingBins(v.status) /\ v.status.install = << >>

\* The calls of installSkill recorded so far.
InstallCalls ==
  LET IsCall(e) == e.op = "install"
  IN SelectSeq(ret.log, IsCall)

\* C25: a skill that loads, is not eligible, is missing a binary (bins or
\* anyBins) and declares no installer is reported not ready, with a rewrite
\* recommended for the reason that no installer is declared, and
\* skills.import and skills.add never call installSkill for it, whatever
\* autoInstall is.
C25_NoInstallerNeverInstalled ==
  ImportingMethod =>
    \A v \in HeldEntries :
      NoInstallerCase(v) =>
        /\ ~v.ready
        /\ v.rewriteRecommended
        /\ R_noInstaller \in Range(v.rewriteReasons)
        /\ \A i \in DOMAIN InstallCalls : InstallCalls[i].name # v.status.name

\* C25 witness: a call with autoInstall set has finished, it called
\* installSkill for one skill of the batch and the other skill is one
\* without an installer, missing only one of its anyBins alternatives.
C25_SkippedBesideInstalled ==
  /\ ImportingMethod /\ arg.autoInstall = "true" /\ ret.pc = "done"
  /\ Len(InstallCalls) = 1
  /\ \E v \in Range(ret.validation.report.skills) :
       NoInstallerCase(v) /\ v.status.missing.bins = << >>

\* The calls of validateImportedSkills recorded so far.
ValidateCalls ==
  LET IsCall(e) == e.op = "validate"
  IN SelectSeq(ret.log, IsCall)

\* The calls of installSkill for the skill of that name.
InstallCallsFor(name) ==
  LET IsCall(e) == e.op = "install" /\ e.name = name
  IN SelectSeq(ret.log, IsCall)

\* The entry qualifies for installation: not eligible, a first installer
\* declared by name, nothing missing of the OS, binaries missing and
\* nothing else.
QualifiesForInstall(v) ==
  /\ v.status.present /\ ~v.status.eligible
  /\ v.status.install # << >> /\ v.status.install[1].id # ""
  /\ v.status.missing.os = << >>
  /\ v.status.missing.bins # << >> \/ v.status.missing.anyBins # << >>
  /\ v.status.missing.env = << >> /\ v.status.missing.config = << >>

\* The positions of the record after the last return of installSkill.
AfterLastInstall(i) ==
  \A j \in DOMAIN ret.log : ret.log[j].op \in { "install", "install-ret" } => j < i

\* C26: with autoInstall set and an import that returned ok, every entry of
\* the first validation that qualifies for installation has had exactly
\* one call of installSkill when the call is over, with the first installer
\* its status declares; no entry has more than one; validation is called
\* once more after the last installer returned, over the same batch, and
\* the report returned is that of the second validation; there is never a
\* third validation.
C26_OnePassThenRevalidate ==
  (ImportingMethod /\ arg.autoInstall = "true" /\ ret.imported.ok) =>
    /\ Len(ValidateCalls) <= 2
    /\ \A v \in Range(ret.first.report.skills) :
         v.status.present =>
           /\ Len(InstallCallsFor(v.status.name)) <= 1
           /\ \A i \in DOMAIN InstallCallsFor(v.status.name) :
                InstallCallsFor(v.status.name)[i].id = v.status.install[1].id
           /\ (ret.pc = "done" /\ QualifiesForInstall(v)) =>
                Len(InstallCallsFor(v.status.name)) = 1
    /\ ret.pc = "done" =>
         /\ Len(ValidateCalls) = 2
         /\ \E i \in DOMAIN ret.log :
              /\ ret.log[i].op = "validate" /\ AfterLastInstall(i)
              /\ \E j \in 1 .. (i - 1) : ret.log[j].op = "validate-ret"
         /\ ret.validation.present
         /\ ret.validation.report = validateImportedSkills(ret.host, arg.batch)

\* C26 witness: a call with autoInstall set is over; both skills of the
\* batch had their installer called, one installer failed, and the report
\* returned is still not ok.
C26_FailedInstallNotRetried ==
  /\ ImportingMethod /\ arg.autoInstall = "true" /\ ret.pc = "done"
  /\ Len(InstallCalls) = 2
  /\ \E i \in DOMAIN ret.log : ret.log[i].op = "install-ret" /\ ~ret.log[i].ok
  /\ \E i \in DOMAIN ret.log : ret.log[i].op = "install-ret" /\ ret.log[i].ok
  /\ ~ret.validation.report.ok
  /\ ret.validation.report # ret.first.report

\* The entry of the first validation for the skill of that name.
FirstEntryOf(name) ==
  CHOOSE v \in Range(ret.first.report.skills) : v.status.present /\ v.status.name = name

\* C27: installSkill is called by the auto-install pass only for an entry
\* that is not eligible, declares an installer, has no missing OS
\* requirement and is missing only binaries: bins or anyBins, and neither
\* env nor config.
C27_InstallOnlyForMissingBinaries ==
  ImportingMethod =>
    \A i \in DOMAIN InstallCalls :
      LET status == FirstEntryOf(InstallCalls[i].name).status
      IN /\ ~status.eligible
         /\ status.install # << >>
         /\ status.missing.os = << >>
         /\ status.missing.bins # << >> \/ status.missing.anyBins # << >>
         /\ status.missing.env = << >>
         /\ status.missing.config = << >>

\* The positions of the record with that operation.
Positions(op) == { i \in DOMAIN ret.log : ret.log[i].op = op }

\* The calls of installSkill follow a returned validation and a set
\* autoInstall; the second validation follows the last return of
\* installSkill, every call of which has returned; skills.add imports only
\* after a discovery that returned ok with a candidate, from the source of
\* the first candidate.
StagesAfterImport ==
  /\ \A i \in Positions("install") :
       /\ arg.autoInstall = "true"
       /\ \E j \in Positions("validate-ret") : j < i
  /\ \A i \in Positions("validate") :
       (\E j \in Positions("validate") : j < i) =>
          /\ AfterLastInstall(i)
          /\ Cardinality(Positions("install")) = Cardinality(Positions("install-ret"))
  /\ \A i \in Positions("validate") : \E j \in Positions("import-ret") : j < i
  /\ arg.method = "skills.add" =>
       \A i \in Positions("import") :
         /\ \E j \in Positions("discover-ret") : j < i /\ ret.log[j].ok
         /\ arg.discovered.ok /\ arg.discovered.candidates # << >>
         /\ ret.log[i].name = arg.discovered.candidates[1].source

\* Every import that returned is followed by a call of the validation, over
\* the entries it imported.
ImportFeedsValidate ==
  \A i \in Positions("import-ret") :
    /\ i < Len(ret.log) /\ ret.log[i + 1].op = "validate"
    /\ ret.first.present =>
         [k \in DOMAIN ret.first.report.skills |-> ret.first.report.skills[k].skillPath]
           = [k \in DOMAIN ret.imported.imported |-> ret.imported.imported[k].skillPath]

\* C28 as stated: every import feeds a validation, installers run after
\* the first validation and only with autoInstall, the second validation
\* after the last installer; skills.add imports the first candidate of a
\* discovery that returned ok.
C28_ImportAlwaysValidated ==
  ImportingMethod => (ImportFeedsValidate /\ StagesAfterImport)

\* C28: every import that returned ok=true feeds a validation of its
\* imported entries, and an import that returned ok=false feeds none; an
\* installer is called only after the first validation has returned and
\* only when autoInstall is true; the second validation starts only after
\* the last installer call has returned; skills.add imports only after a
\* discovery that returned ok with a candidate, from the first candidate's
\* source.
C28_OkImportValidated ==
  ImportingMethod =>
    /\ ret.imported.ok => ImportFeedsValidate
    /\ (\E i \in Positions("import-ret") : ~ret.log[i].ok) => Positions("validate") = {}
    /\ StagesAfterImport

\* C28 witness: a skills.add call is over that discovered two candidates,
\* imported the first, validated, called an installer and validated again.
C28_AddRanAllStages ==
  /\ arg.method = "skills.add" /\ ret.pc = "done"
  /\ Len(arg.discovered.candidates) = 2 /\ ret.source = "repo-1"
  /\ Positions("install") # {}
  /\ Cardinality(Positions("validate-ret")) = 2

\* The requests whose parameters the validator accepted.
Accepted == arg.paramsOk

\* The record ends with the bump and the response, in that order.
BumpedLast ==
  /\ Len(ret.log) >= 2
  /\ ret.log[Len(ret.log) - 1].op = "bump"
  /\ ret.log[Len(ret.log)].op = "respond"
  /\ Cardinality(Positions("bump")) = 1

\* C29: an accepted call that has responded bumped the snapshot version
\* exactly once if it was a skills.import or skills.add whose import
\* returned ok, a skills.install whose installer returned ok, or a
\* skills.update, and not at all if the import or the installer returned
\* ok=false; the bump is the last thing before the response, after the
\* validations and the installers; the response's ok of skills.import and
\* skills.add is the import's ok.  No call bumps twice.
C29_BumpOncePerSuccess ==
  /\ ret.version <= 1
  /\ ret.version = Cardinality(Positions("bump"))
  /\ (Accepted /\ ret.response.sent) =>
       /\ ImportingMethod /\ Positions("import-ret") # {} =>
            /\ ret.response.ok = ret.imported.ok
            /\ \A i \in Positions("import-ret") : ret.log[i].ok = ret.imported.ok
            /\ ret.version = (IF ret.imported.ok THEN 1 ELSE 0)
            /\ ret.imported.ok => BumpedLast
       /\ arg.method = "skills.install" =>
            \A i \in Positions("install-ret") :
              /\ ret.response.ok = ret.log[i].ok
              /\ ret.version = (IF ret.log[i].ok THEN 1 ELSE 0)
              /\ ret.log[i].ok => BumpedLast
       /\ arg.method = "skills.update" =>
            ret.response.ok /\ ret.version = 1 /\ BumpedLast

\* C29 witness: a skills.import with autoInstall set is over; its import
\* returned ok, an installer failed, the report returned is not ok, and
\* the call bumped the version once and responded ok.
C29_BumpedDespiteFailedInstall ==
  /\ arg.method = "skills.import" /\ ret.pc = "done"
  /\ \E i \in Positions("install-ret") : ~ret.log[i].ok
  /\ ~ret.validation.report.ok
  /\ ret.version = 1 /\ ret.response.ok

\* C30: a call on a remote source runs one shallow clone first, with
\* --branch exactly when a ref was requested; a full clone runs only after
\* that shallow clone failed, and once; after a shallow clone that
\* succeeded no full clone runs; when both failed the root is empty, the
\* cleanup does nothing, the temporary directory is gone, the diagnostic is
\* the last warning, and importSkills returns it as its message with
\* ok=false.  A call on a local source clones nothing.
C30_ShallowThenFullOnce ==
  \A c \in Slots :
    call[c].kind = "import" =>
      LET t == call[c].trail
      IN /\ Len(t) \in {0, 2, 4}
         /\ (Len(t) = 0 /\ call[c].pc \notin {"idle", "queued"}) =>
              (call[c].madeTmp # 0 <=> call[c].pc = "clone")
         /\ Len(t) >= 2 =>
              /\ call[c].madeTmp # 0
              /\ t[1] = (IF Truthy(call[c].ref) THEN "shallow-branch" ELSE "shallow")
              /\ t[2] \in {"ok", "failed"}
              /\ (Len(t) = 2 /\ t[2] = "failed") <=> call[c].pc = "fullclone"
         /\ Len(t) = 4 =>
              /\ t[2] = "failed" /\ t[3] = "full" /\ t[4] \in {"ok", "failed"}
              /\ t[4] = "failed" =>
                   /\ call[c].rootDir = << >>
                   /\ call[c].cleanup = 0
                   /\ call[c].madeTmp \notin DOMAIN tmp
                   /\ call[c].warnings # << >>
                   /\ call[c].warnings[Len(call[c].warnings)] = "git clone failed"
                   /\ call[c].pc = "done" =>
                        /\ call[c].exit = "return"
                        /\ ~call[c].result.ok
                        /\ call[c].result.message = "git clone failed"
                        /\ call[c].result.imported = << >>

\* C30 witness: a call with a ref is over whose shallow clone with
\* --branch failed and whose full clone failed too.
C30_BothClonesFailed ==
  \E c \in Slots :
    /\ call[c].kind = "import" /\ call[c].pc = "done"
    /\ call[c].trail = << "shallow-branch", "failed", "full", "failed" >>

\* C31: when a ref is requested and resolveSource returns a root inside a
\* clone, the clone is at that ref for as long as it is scanned and
\* copied from.
C31_TreeAtRequestedRef ==
  \A c \in Slots :
    ( /\ call[c].kind = "import" /\ Truthy(call[c].ref)
      /\ call[c].rootDir # << >> /\ call[c].madeTmp \in DOMAIN tmp ) =>
        tmp[call[c].madeTmp].at = call[c].ref

\* The clone directories a discovery made that still exist.
LiveClones(rec) == { t \in Range(rec.tmps) : t \in DOMAIN tmp }

\* C32: of the clone directories a discovery made, at most one exists at
\* any time, the one of the repository being visited; none exists while
\* the call is between repositories or after it returned, whether the
\* clone failed, held no match, held a match, or the visit threw.
C32_OneCloneDirAtATime ==
  \A rec \in Range(Log) \cup {call[1]} :
    IsDiscover(rec) =>
      /\ Cardinality(LiveClones(rec)) <= 1
      /\ LiveClones(rec) # {} =>
           /\ rec.pc \in {"dclone", "dfallback", "dscan", "dcleanup"}
           /\ LiveClones(rec) = { rec.tmps[Len(rec.tmps)] }
           /\ rec.tmpDir = rec.tmps[Len(rec.tmps)]
      /\ rec.pc = "done" => LiveClones(rec) = {}

\* C32 witness: a discovery has returned that visited three repositories:
\* the first visit threw, the clone of the second failed, the third was
\* scanned; it made three clone directories and none is left.
C32_ThreeVisitsNothingLeft ==
  /\ IsDiscover(call[1]) /\ call[1].pc = "done"
  /\ Outcomes(call[1]) = << "threw", "clone-failed", "scanned" >>
  /\ Len(call[1].tmps) = 3
  /\ Cardinality(Range(call[1].tmps)) = 3
  /\ LiveClones(call[1]) = {}

\* The scanned directories a call has dealt with so far, while the source
\* is still there.
Handled(rec) ==
  IF rec.pc \in {"entry", "rm", "cp", "cleanup"}
  THEN { rec.skillDirs[i] : i \in 1 .. (rec.idx - 1) } ELSE {}

\* The manifest can be read but gives no name: it does not parse, or it
\* declares none.
Nameless(mf) == mf.readable /\ (~mf.parses \/ mf.name = NoName)

SkippedAs(rec, d, reason) == Skipped(d, reason) \in Range(rec.skipped)

\* C33: a scanned directory is skipped as invalid-skill exactly when its
\* SKILL.md cannot be read; one whose SKILL.md can be read but does not
\* parse or declares no name is checked under a destination named after
\* its own directory, and is copied to it and reported imported unless it
\* is skipped as a conflict or for a failed copy.
C33_BadManifestStillImported ==
  \A c \in Slots :
    IsImport(call[c]) =>
      \A d \in Handled(call[c]) :
        /\ SkippedAs(call[c], d, "invalid-skill") <=> ~ManifestAt(d).readable
        /\ Nameless(ManifestAt(d)) =>
             \E k \in Range(call[c].checks) :
               /\ k.skillDir = d /\ k.name = Undefined
               /\ \/ Basename(k.destDir) = sanitizeSkillDirName(Basename(d))
                  \/ StartsWith(Basename(k.destDir),
                                sanitizeSkillDirName(Basename(d)) \o << "-" >>)
               /\ \/ SkippedAs(call[c], d, "conflict")
                  \/ SkippedAs(call[c], d, "copy-failed")
                  \/ /\ \E e \in Range(call[c].imported) :
                          e.sourceDir = d /\ e.destDir = k.destDir /\ e.name = Undefined
                     /\ k.destDir \in DOMAIN fs
                     /\ fs[k.destDir].src = d /\ ~fs[k.destDir].partial

\* C33 witness: a call has copied a directory whose manifest does not
\* parse and, another call, one whose manifest declares no name, next to a
\* directory skipped because its manifest cannot be read.
C33_UnparsedAndUnnamedCopied ==
  /\ \E rec \in Range(Log) :
       /\ IsImport(rec) /\ rec.req.source = P_two
       /\ \E e \in Range(rec.result.imported) :
            e.sourceDir = PathJoin(P_two, << "a" >>) /\ e.name = Undefined
  /\ IsImport(call[1]) /\ call[1].pc = "cleanup" /\ call[1].req.source = P_bad
  /\ SkippedAs(call[1], PathJoin(P_bad, << "c" >>), "invalid-skill")
  /\ \E e \in Range(call[1].imported) :
       /\ e.sourceDir = PathJoin(P_bad, << "d" >>)
       /\ Basename(e.destDir) = << "d" >>
       /\ e.destDir \in DOMAIN fs

\* The metadata parsed to something that is not a JSON object.
ParsedToNonObject ==
  arg.isString /\ ~arg.blank /\ ~arg.throws /\ arg.kind # "object"

\* C34: the inspection is absent (present=false, parseOk=true,
\* manifestFound=false), or present and parsed (present=true, parseOk=true),
\* or present and unparsable (present=true, parseOk=false,
\* manifestFound=false, with an error); manifestFound implies present and
\* parseOk; metadata that parses to a non-object is unparsable.
C34_ThreeShapes ==
  ret.done =>
    LET m == ret.out.inspection IN
      /\ \/ ~m.present /\ m.parseOk /\ ~m.manifestFound /\ ~ret.out.error
         \/ m.present /\ m.parseOk /\ ~ret.out.error
         \/ m.present /\ ~m.parseOk /\ ~m.manifestFound /\ ret.out.error
      /\ m.manifestFound => m.present /\ m.parseOk
      /\ ParsedToNonObject => (m.present /\ ~m.parseOk)

\* The reasons that come from the loader's messages.
SpecWarningReasons == { R_specWarning \o ": " \o m : m \in InterestingDiagnostics }

\* The name of the entry belongs to a loaded skill at another path.
Collides(host, v) ==
  /\ ~v.loaded /\ ReadFileOk(host, normalizePath(v.skillPath))
  /\ LET facts == HostFactsAt(host, normalizePath(v.skillPath))[1]
     IN /\ facts.piName # ""
        /\ \E i \in DOMAIN host :
             /\ host[i].listed /\ host[i].name = facts.piName
             /\ normalizePath(host[i].filePath) # normalizePath(v.skillPath)

\* One of the six grounds for a rewrite holds of the entry.
RewriteGround(host, v) ==
  \/ ~v.loaded
  \/ Collides(host, v)
  \/ v.metadata.present /\ ~v.metadata.parseOk
  \/ v.metadata.present /\ v.metadata.parseOk /\ ~v.metadata.manifestFound
  \/ \E i \in DOMAIN v.diagnostics : v.diagnostics[i] \in InterestingDiagnostics
  \/ /\ v.status.present /\ ~v.status.eligible /\ v.status.install = << >>
     /\ v.status.missing.bins # << >> \/ v.status.missing.anyBins # << >>

\* C35: for every validation entry, a rewrite is recommended exactly when
\* there is a reason, which is exactly when the entry is not loaded, or its
\* name collides with another loaded skill, or its metadata is present and
\* unparsable, or parsed without a manifest key, or a loader message
\* matches the pattern, or it is ineligible for missing binaries with no
\* installer declared; a skill rejected for its missing description is not
\* loaded and has the rewrite recommended with the not-loaded reason; no
\* reason occurs twice and at most five come from loader messages.
C35_RewriteIffReason ==
  \A i \in DOMAIN ret.validations :
    LET v == ret.validations[i] IN
      /\ v.rewriteRecommended <=> v.rewriteReasons # << >>
      /\ v.rewriteReasons # << >> <=> RewriteGround(arg.host, v)
      /\ ("description is required" \in Range(v.diagnostics) /\ ~HostLists(arg.host, v.skillPath)) =>
           ~v.loaded /\ v.rewriteRecommended /\ R_notLoaded \in Range(v.rewriteReasons)
      /\ Cardinality(Range(v.rewriteReasons)) = Len(v.rewriteReasons)
      /\ Cardinality(Range(v.rewriteReasons) \cap SpecWarningReasons) <= 5

\* C35 witness: a loaded, ready entry with six distinct matching loader
\* messages has exactly five reasons, all from those messages, next to an
\* entry rejected for its missing description.
C35_FiveOfSixWarnings ==
  /\ Len(ret.validations) = 2
  /\ \E i, j \in DOMAIN ret.validations :
       /\ ret.validations[i].ready
       /\ Cardinality(Range(ret.validations[i].diagnostics) \cap InterestingDiagnostics) = 6
       /\ Len(ret.validations[i].rewriteReasons) = 5
       /\ Range(ret.validations[i].rewriteReasons) \subseteq SpecWarningReasons
       /\ ~ret.validations[j].loaded
       /\ "description is required" \in Range(ret.validations[j].diagnostics)

\* C36: under fairness of the steps, every importSkills call that was made
\* ends, by a result or by an exception, and every call queued behind
\* earlier calls on its key enters its section, also after an earlier call
\* on that key returned a failure or threw.
C36_EveryCallEnds ==
  \A c \in Slots :
    /\ (call[c].pc # "idle") ~> (call[c].pc = "done")
    /\ (call[c].pc = "queued") ~> InSection(c)

\* C36 witness: a call queued while an earlier call on the same key was
\* running has ended after that call threw.
C36_EndedAfterThrow ==
  \E a, b \in Slots :
    /\ a # b /\ call[a].key = call[b].key /\ a \in call[b].concWith
    /\ call[a].pc = "done" /\ call[a].exit = "throw"
    /\ call[b].pc = "done" /\ call[b].exit = "return" /\ call[b].result.ok

\* The validation entry v is the one of the imported entry e.
ValidationFor(v, e) == v.destDir = e.destDir /\ v.skillPath = e.skillPath

C38_ImportedDestHoldsOwnManifest ==
  \A c \in Slots :
    (IsImport(call[c]) /\ call[c].pc = "done" /\ call[c].exit = "return") =>
      \A i \in DOMAIN call[c].result.imported :
        LET e == call[c].result.imported[i] IN
          /\ e.destDir \in DOMAIN call[c].post
          /\ Under(e.destDir, call[c].targetDir)
          /\ call[c].post[e.destDir].src = e.sourceDir
          /\ call[c].post[e.destDir].mf.present

\* An installed skill: a directory with its SKILL.md, wholly written.
InstalledSkill(files, p) == p \in DOMAIN files /\ files[p].mf.present /\ ~files[p].partial

\* C39: a destination that held an installed skill when the task of an
\* importSkills call started holds an installed skill, the old or the new
\* one, when the call has ended.
C39_InstalledStaysInstalled ==
  \A c \in Slots :
    (IsImport(call[c]) /\ call[c].pc = "done") =>
      \A p \in DOMAIN call[c].pre :
        (Under(p, call[c].targetDir) /\ InstalledSkill(call[c].pre, p))
          => InstalledSkill(call[c].post, p)

====
